---- MODULE Spec2Model ----
(***************************************************************************)
(* Verification model of the beapp-server visibility pipeline:            *)
(*   utils/scoringCalculator.ts   calculateVisibilityScore                *)
(*   utils/scoringParser.ts       parseScoringResponse                    *)
(*   services/visibilityScoring   scoreAnswerVisibility                   *)
(*   llmClients.ts                hasApiKey, callLlm                      *)
(*   agents.ts                    visibilityAgentForProvider,             *)
(*                                dashboardAgent, runVisibilityFlow       *)
(*                                                                         *)
(* JavaScript numbers are modelled as exact rationals [n, d] with d > 0,  *)
(* plus NaN (d = 0).  Texts are modelled as sequences of words.           *)
(***************************************************************************)
EXTENDS Integers, Sequences, FiniteSets, TLC

VARIABLES calc, sel, sc, env, clients, world, company, questions,
          flowPc, loops, providerResults, insights, dash, qp, qv, qg

vars == <<calc, sel, sc, env, clients, world, company, questions,
          flowPc, loops, providerResults, insights, dash, qp, qv, qg>>

\* ------------------------------------------------------------------------
\* Bounds of the model
\* ------------------------------------------------------------------------
MaxWeight == 2
FScale == 2
MaxQuestions == 2

\* ------------------------------------------------------------------------
\* JavaScript numbers
\* ------------------------------------------------------------------------
NaN == [n |-> 0, d |-> 0]

Abs(i) == IF i < 0 THEN -i ELSE i

RECURSIVE GCD(_, _)
GCD(a, b) == IF b = 0 THEN a ELSE GCD(b, a % b)

Rat(n, d) ==
  LET g == GCD(Abs(n), d)
  IN  [n |-> n \div g, d |-> d \div g]

Zero == Rat(0, 1)
One == Rat(1, 1)

IsFinite(x) == x.d # 0

RAdd(x, y) ==
  IF IsFinite(x) /\ IsFinite(y) THEN Rat(x.n * y.d + y.n * x.d, x.d * y.d) ELSE NaN

RMul(x, y) ==
  IF IsFinite(x) /\ IsFinite(y) THEN Rat(x.n * y.n, x.d * y.d) ELSE NaN

\* x / y; callers never divide by zero (normalizeWeights returns before it)
RDiv(x, y) ==
  IF IsFinite(x) /\ IsFinite(y) /\ y.n # 0
  THEN IF y.n > 0 THEN Rat(x.n * y.d, x.d * y.n) ELSE Rat(-(x.n * y.d), x.d * (-y.n))
  ELSE NaN

\* comparisons with NaN are false, as in JavaScript
RLt(x, y) == IsFinite(x) /\ IsFinite(y) /\ x.n * y.d < y.n * x.d
RGt(x, y) == RLt(y, x)
RLe(x, y) == IsFinite(x) /\ IsFinite(y) /\ x.n * y.d <= y.n * x.d
RGe(x, y) == RLe(y, x)
StrictEq(x, y) == IsFinite(x) /\ IsFinite(y) /\ x = y

\* Math.min
MathMin(x, y) ==
  IF ~IsFinite(x) \/ ~IsFinite(y) THEN NaN
  ELSE IF RLt(y, x) THEN y ELSE x

InUnit(x) == RGe(x, Zero) /\ RLe(x, One)

\* ------------------------------------------------------------------------
\* utils/scoringCalculator.ts
\* ------------------------------------------------------------------------
Factors == {"mentionPresence", "mentionContext", "mentionPosition",
            "descriptionDetail", "answerRelevance", "serviceMatch"}

DEFAULT_SCORING_WEIGHTS ==
  [mentionPresence |-> Rat(20, 100),
   mentionContext |-> Rat(25, 100),
   mentionPosition |-> Rat(15, 100),
   descriptionDetail |-> Rat(20, 100),
   answerRelevance |-> Rat(10, 100),
   serviceMatch |-> Rat(10, 100)]

CapNotMentioned == Rat(2, 10)

CalcClampNoLower(value) ==
  IF ~IsFinite(value) THEN Zero
  ELSE IF RGt(value, One) THEN One
  ELSE value

CalcClamp(value) ==
  IF ~IsFinite(value) THEN Zero
  ELSE IF RLt(value, Zero) THEN Zero
  ELSE IF RGt(value, One) THEN One
  ELSE value

WeightSum(weights) ==
  RAdd(RAdd(RAdd(RAdd(RAdd(weights.mentionPresence, weights.mentionContext),
                      weights.mentionPosition),
                 weights.descriptionDetail),
            weights.answerRelevance),
       weights.serviceMatch)

normalizeWeightsNoDefault(weights) ==
  LET sum == WeightSum(weights)
  IN  [f \in Factors |-> RDiv(weights[f], sum)]

normalizeWeightsNoDivide(weights) ==
  LET sum == WeightSum(weights)
  IN  IF StrictEq(sum, Zero) THEN DEFAULT_SCORING_WEIGHTS
      ELSE weights

normalizeWeights(weights) ==
  LET sum == WeightSum(weights)
  IN  IF StrictEq(sum, Zero) THEN DEFAULT_SCORING_WEIGHTS
      ELSE [f \in Factors |-> RDiv(weights[f], sum)]

BaseScore(breakdown, weights) ==
  LET w == normalizeWeights(weights)
  IN  RAdd(RAdd(RAdd(RAdd(RAdd(
        RMul(breakdown.mentionPresence, w.mentionPresence),
        RMul(breakdown.mentionContext, w.mentionContext)),
        RMul(breakdown.mentionPosition, w.mentionPosition)),
        RMul(breakdown.descriptionDetail, w.descriptionDetail)),
        RMul(breakdown.answerRelevance, w.answerRelevance)),
        RMul(breakdown.serviceMatch, w.serviceMatch))

calculateVisibilityScoreNoCap(breakdown, weights) ==
  CalcClamp(BaseScore(breakdown, weights))

calculateVisibilityScorePercent(breakdown, weights) ==
  LET baseScore == BaseScore(breakdown, weights)
      finalScore == IF RGt(breakdown.mentionPresence, Zero)
                    THEN baseScore
                    ELSE MathMin(baseScore, CapNotMentioned)
  IN  RMul(CalcClamp(finalScore), Rat(100, 1))

calculateVisibilityScore(breakdown, weights) ==
  LET baseScore == BaseScore(breakdown, weights)
      finalScore == IF RGt(breakdown.mentionPresence, Zero)
                    THEN baseScore
                    ELSE MathMin(baseScore, CapNotMentioned)
  IN  CalcClamp(finalScore)

\* ------------------------------------------------------------------------
\* llmClients.ts: credentials
\* ------------------------------------------------------------------------
Providers == {"openai", "anthropic", "gemini"}
ProviderOrder == <<"openai", "anthropic", "gemini">>

\* an environment variable that is not set, an absent option, a null result
Undefined == "<undefined>"
Null == "<null>"

\* String.prototype.trim on the key strings of the model
TrimKey(key) == IF key = "  " THEN "" ELSE key

hasValidApiKeyNoTrim(key) == key # Undefined /\ key # ""

hasValidApiKey(key) == key # Undefined /\ key # "" /\ TrimKey(key) # ""

hasApiKey(provider, e) ==
  CASE provider = "openai" -> hasValidApiKey(e.OPENAI_API_KEY)
    [] provider = "anthropic" -> hasValidApiKey(e.ANTHROPIC_API_KEY)
    [] provider = "gemini" -> hasValidApiKey(e.GEMINI_API_KEY)
    [] OTHER -> FALSE

\* ------------------------------------------------------------------------
\* services/visibilityScoring: selectScoringProvider
\* ------------------------------------------------------------------------
Truthy(str) == str # Undefined /\ str # ""

FirstAvailable(e) ==
  IF \E i \in 1..Len(ProviderOrder) : hasApiKey(ProviderOrder[i], e)
  THEN LET i == CHOOSE j \in 1..Len(ProviderOrder) :
                  /\ hasApiKey(ProviderOrder[j], e)
                  /\ \A k \in 1..(j - 1) : ~hasApiKey(ProviderOrder[k], e)
       IN  ProviderOrder[i]
  ELSE Null

selectScoringProviderNoFallback(optionProvider, envProvider, fallbackProvider, e) ==
  IF Truthy(optionProvider) /\ hasApiKey(optionProvider, e) THEN optionProvider
  ELSE IF Truthy(envProvider) /\ hasApiKey(envProvider, e) THEN envProvider
  ELSE FirstAvailable(e)

selectScoringProviderNoKeyCheck(optionProvider, envProvider, fallbackProvider, e) ==
  IF Truthy(optionProvider) THEN optionProvider
  ELSE IF Truthy(envProvider) /\ hasApiKey(envProvider, e) THEN envProvider
  ELSE IF hasApiKey(fallbackProvider, e) THEN fallbackProvider
  ELSE FirstAvailable(e)

selectScoringProvider(optionProvider, envProvider, fallbackProvider, e) ==
  IF Truthy(optionProvider) /\ hasApiKey(optionProvider, e) THEN optionProvider
  ELSE IF Truthy(envProvider) /\ hasApiKey(envProvider, e) THEN envProvider
  ELSE IF hasApiKey(fallbackProvider, e) THEN fallbackProvider
  ELSE FirstAvailable(e)

\* ------------------------------------------------------------------------
\* Texts returned by a language model, and JSON.parse
\*
\* A text is a sequence of segments:
\*   [k |-> "json", v |-> value]            a JSON serialisation in the text
\*   [k |-> "prose", w |-> word]            a word of prose
\*   [k |-> "fence", tag |-> t, v |-> value] a ``` fenced block with tag t
\* A JSON value is [t |-> "obj", f |-> fields],
\* [t |-> "arr", items |-> elements], [t |-> "null"],
\* [t |-> "num"], or [t |-> "bad"] for characters that are not valid JSON.
\* A field of an object is a raw value:
\*   [t |-> "num", v |-> x], [t |-> "str", v |-> x] (x the value Number()
\*   gives the string, NaN for a non-numeric one, s the string itself),
\*   [t |-> "null"], [t |-> "undef"] for a missing field.
\* ------------------------------------------------------------------------
RawNum(x) == [t |-> "num", v |-> x, s |-> ""]
RawStr(str, x) == [t |-> "str", v |-> x, s |-> str]
RawNull == [t |-> "null", v |-> Zero, s |-> ""]
RawUndef == [t |-> "undef", v |-> NaN, s |-> ""]

JsonObj(fields) == [t |-> "obj", f |-> fields, items |-> <<>>]
JsonArr == [t |-> "arr", f |-> <<>>, items |-> <<>>]
JsonNull == [t |-> "null", f |-> <<>>, items |-> <<>>]
JsonNumber == [t |-> "num", f |-> <<>>, items |-> <<>>]
JsonBad == [t |-> "bad", f |-> <<>>, items |-> <<>>]

SegJson(v) == [k |-> "json", w |-> "", tag |-> "", v |-> v]
SegProse(word) == [k |-> "prose", w |-> word, tag |-> "", v |-> JsonBad]
SegFence(tag, v) == [k |-> "fence", w |-> "", tag |-> tag, v |-> v]

\* JSON.parse of a whole text: [threw, value]
JsonParseText(text) ==
  IF Len(text) = 1 /\ text[1].k = "json" /\ text[1].v.t # "bad"
  THEN [threw |-> FALSE, value |-> text[1].v]
  ELSE [threw |-> TRUE, value |-> JsonBad]

\* property access parsed.<name> on a parsed value that is an object or array
Field(parsed, name) ==
  IF parsed.t = "obj" /\ name \in DOMAIN parsed.f THEN parsed.f[name] ELSE RawUndef

\* an array with elements; an element is a record [text, intent, language]
JsonArrOf(items) == [t |-> "arr", f |-> <<>>, items |-> items]

\* words of prose that begin with "[", and element texts that hold "MOCK]"
BracketWords == {"[OPENAI", "[ANTHROPIC", "[GEMINI", "[MOCK]", "[1]", "[{note}]"}
MockQuestionTexts == {"Is the MOCK] label visible"}

\* trimmed.startsWith("[")
StartsWithBracket(text) ==
  /\ Len(text) > 0
  /\ \/ text[1].k = "json" /\ text[1].v.t = "arr"
     \/ text[1].k = "prose" /\ text[1].w \in BracketWords

\* trimmed.includes("MOCK]")
IncludesMock(text) ==
  \E i \in 1..Len(text) :
    \/ text[i].k = "prose" /\ text[i].w \in {"MOCK]", "[MOCK]"}
    \/ /\ text[i].k \in {"json", "fence"} /\ text[i].v.t = "arr"
       /\ \E n \in 1..Len(text[i].v.items) : text[i].v.items[n].text \in MockQuestionTexts

LowerTag(tag) == IF tag = "JSON" THEN "json" ELSE tag

\* interior of the first match of /```json\s*([\s\S]*?)\s*```/i, or <<>>
JsonBlockInterior(text) ==
  IF \E i \in 1..Len(text) : text[i].k = "fence" /\ LowerTag(text[i].tag) = "json"
  THEN LET i == CHOOSE j \in 1..Len(text) :
                  /\ text[j].k = "fence" /\ LowerTag(text[j].tag) = "json"
                  /\ \A m \in 1..(j - 1) :
                       ~(text[m].k = "fence" /\ LowerTag(text[m].tag) = "json")
       IN  <<SegJson(text[i].v)>>
  ELSE <<>>

\* interior of the first match of /```\s*([\s\S]*?)\s*```/, or <<>>: the
\* first fenced block, its tag included
CodeBlockInterior(text) ==
  IF \E i \in 1..Len(text) : text[i].k = "fence"
  THEN LET i == CHOOSE j \in 1..Len(text) :
                  /\ text[j].k = "fence"
                  /\ \A m \in 1..(j - 1) : text[m].k # "fence"
       IN  IF text[i].tag = "" THEN <<SegJson(text[i].v)>>
           ELSE <<SegProse(text[i].tag), SegJson(text[i].v)>>
  ELSE <<>>

\* ------------------------------------------------------------------------
\* utils/scoringParser.ts
\* ------------------------------------------------------------------------
\* Number(value) for a raw value that is not a number
ToNumber(raw) ==
  CASE raw.t = "num" -> raw.v
    [] raw.t = "str" -> raw.v
    [] raw.t = "null" -> Zero
    [] OTHER -> NaN

ParserClampNoCoerce(raw) ==
  IF raw.t # "num" THEN raw.v
  ELSE IF ~IsFinite(raw.v) THEN Zero
  ELSE IF RLt(raw.v, Zero) THEN Zero
  ELSE IF RGt(raw.v, One) THEN One
  ELSE raw.v

ParserClamp(raw) ==
  LET num == IF raw.t = "num" THEN raw.v ELSE ToNumber(raw)
  IN  IF ~IsFinite(num) THEN Zero
      ELSE IF RLt(num, Zero) THEN Zero
      ELSE IF RGt(num, One) THEN One
      ELSE num

NoBreakdown == [none |-> TRUE]

ParseFail(msg) == [success |-> FALSE, breakdown |-> NoBreakdown, error |-> msg]

tryParseClampsCount(text) ==
  LET p == JsonParseText(text)
      parsed == p.value
      count == Field(parsed, "mentionCount")
      rat == Field(parsed, "rationale")
  IN  IF p.threw THEN ParseFail("Unexpected token")
      ELSE IF parsed.t \notin {"obj", "arr"}
      THEN ParseFail("Parsed scoring is not an object")
      ELSE [success |-> TRUE,
            breakdown |->
              [mentionPresence |-> ParserClamp(Field(parsed, "mentionPresence")),
               mentionCount |-> ParserClamp(count),
               mentionContext |-> ParserClamp(Field(parsed, "mentionContext")),
               mentionPosition |-> ParserClamp(Field(parsed, "mentionPosition")),
               descriptionDetail |-> ParserClamp(Field(parsed, "descriptionDetail")),
               answerRelevance |-> ParserClamp(Field(parsed, "answerRelevance")),
               serviceMatch |-> ParserClamp(Field(parsed, "serviceMatch")),
               rationale |-> IF rat.t = "str" THEN rat.s ELSE ""],
            error |-> ""]

tryParse(text) ==
  LET p == JsonParseText(text)
      parsed == p.value
      count == Field(parsed, "mentionCount")
      rat == Field(parsed, "rationale")
  IN  IF p.threw THEN ParseFail("Unexpected token")
      ELSE IF parsed.t \notin {"obj", "arr"}
      THEN ParseFail("Parsed scoring is not an object")
      ELSE [success |-> TRUE,
            breakdown |->
              [mentionPresence |-> ParserClamp(Field(parsed, "mentionPresence")),
               mentionCount |-> IF count.t = "num" /\ IsFinite(count.v)
                                THEN count.v ELSE Zero,
               mentionContext |-> ParserClamp(Field(parsed, "mentionContext")),
               mentionPosition |-> ParserClamp(Field(parsed, "mentionPosition")),
               descriptionDetail |-> ParserClamp(Field(parsed, "descriptionDetail")),
               answerRelevance |-> ParserClamp(Field(parsed, "answerRelevance")),
               serviceMatch |-> ParserClamp(Field(parsed, "serviceMatch")),
               rationale |-> IF rat.t = "str" THEN rat.s ELSE ""],
            error |-> ""]

\* the empty text <<>> is the empty string
parseScoringResponse(response) ==
  IF response = <<>> THEN ParseFail("Empty or invalid response")
  ELSE IF StartsWithBracket(response) /\ IncludesMock(response)
  THEN ParseFail("LLM API key not configured - received mock response")
  ELSE LET direct == tryParse(response)
           jsonBlock == JsonBlockInterior(response)
           codeBlock == CodeBlockInterior(response)
       IN  IF direct.success THEN direct
           ELSE IF jsonBlock # <<>> /\ tryParse(jsonBlock).success
           THEN tryParse(jsonBlock)
           ELSE IF codeBlock # <<>> /\ tryParse(codeBlock).success
           THEN tryParse(codeBlock)
           ELSE ParseFail(direct.error)

\* ------------------------------------------------------------------------
\* utils/questionParser: parseQuestionResponse
\* ------------------------------------------------------------------------
QuestionFail(msg) == [success |-> FALSE, questions |-> <<>>, error |-> msg]

QuestionOk(parsed) == [success |-> TRUE, questions |-> parsed.items, error |-> ""]

\* JSON.parse(text) returned and Array.isArray(parsed)
ParsesToArray(text) ==
  text # <<>> /\ ~JsonParseText(text).threw /\ JsonParseText(text).value.t = "arr"

\* the segment holds "[" followed by "{" and "}" followed by "]"
ArrayShaped(seg) ==
  \/ seg.k \in {"json", "fence"} /\ seg.v.t = "arr" /\ Len(seg.v.items) > 0
  \/ seg.k = "prose" /\ seg.w = "[{note}]"

\* arrayMatch[0] for /\[\s*\{[\s\S]*\}\s*\]/, or <<>>: from the first "[{" to
\* the last "}]" of the text, fences and prose included
ArrayMatch(text) ==
  IF \E i \in 1..Len(text) : ArrayShaped(text[i])
  THEN LET first == CHOOSE i \in 1..Len(text) :
                      ArrayShaped(text[i]) /\ \A m \in 1..(i - 1) : ~ArrayShaped(text[m])
           last == CHOOSE i \in 1..Len(text) :
                     ArrayShaped(text[i]) /\ \A m \in (i + 1)..Len(text) : ~ArrayShaped(text[m])
       IN  IF first = last
           THEN IF text[first].k = "prose" THEN <<text[first]>>
                ELSE <<SegJson(text[first].v)>>
           ELSE SubSeq(text, first, last)
  ELSE <<>>

parseQuestionResponseMockAfterDirect(response) ==
  IF response = <<>> THEN QuestionFail("Empty or invalid response")
  ELSE IF ParsesToArray(response) THEN QuestionOk(JsonParseText(response).value)
  ELSE IF StartsWithBracket(response) /\ IncludesMock(response)
  THEN QuestionFail("LLM API key not configured - received mock response")
  ELSE IF ParsesToArray(JsonBlockInterior(response))
  THEN QuestionOk(JsonParseText(JsonBlockInterior(response)).value)
  ELSE IF ParsesToArray(CodeBlockInterior(response))
  THEN QuestionOk(JsonParseText(CodeBlockInterior(response)).value)
  ELSE IF ParsesToArray(ArrayMatch(response))
  THEN QuestionOk(JsonParseText(ArrayMatch(response)).value)
  ELSE QuestionFail("Could not extract valid JSON array from response")

parseQuestionResponseAnyFenceFirst(response) ==
  IF response = <<>> THEN QuestionFail("Empty or invalid response")
  ELSE IF StartsWithBracket(response) /\ IncludesMock(response)
  THEN QuestionFail("LLM API key not configured - received mock response")
  ELSE IF ParsesToArray(response) THEN QuestionOk(JsonParseText(response).value)
  ELSE IF ParsesToArray(CodeBlockInterior(response))
  THEN QuestionOk(JsonParseText(CodeBlockInterior(response)).value)
  ELSE IF ParsesToArray(JsonBlockInterior(response))
  THEN QuestionOk(JsonParseText(JsonBlockInterior(response)).value)
  ELSE IF ParsesToArray(ArrayMatch(response))
  THEN QuestionOk(JsonParseText(ArrayMatch(response)).value)
  ELSE QuestionFail("Could not extract valid JSON array from response")

\* the empty text <<>> is the empty string
parseQuestionResponse(response) ==
  IF response = <<>> THEN QuestionFail("Empty or invalid response")
  ELSE IF StartsWithBracket(response) /\ IncludesMock(response)
  THEN QuestionFail("LLM API key not configured - received mock response")
  ELSE IF ParsesToArray(response) THEN QuestionOk(JsonParseText(response).value)
  ELSE IF ParsesToArray(JsonBlockInterior(response))
  THEN QuestionOk(JsonParseText(JsonBlockInterior(response)).value)
  ELSE IF ParsesToArray(CodeBlockInterior(response))
  THEN QuestionOk(JsonParseText(CodeBlockInterior(response)).value)
  ELSE IF ParsesToArray(ArrayMatch(response))
  THEN QuestionOk(JsonParseText(ArrayMatch(response)).value)
  ELSE QuestionFail("Could not extract valid JSON array from response")

\* ------------------------------------------------------------------------
\* utils/questionValidator: validateQuestions
\*
\* A candidate is [kind, text, intent, language]; kind is "record", "array",
\* "null" or "string".  A text is [isString, length, padding]: the number of
\* characters and how many of them are leading or trailing whitespace.  An
\* intent is [isString, s].  A language is [isString, chars], chars being its
\* sequence of characters.  A config field is [given, n] or [given, list].
\* ------------------------------------------------------------------------
VALID_INTENTS ==
  <<"find_service", "evaluate_company", "compare_options", "pricing",
    "reviews", "features", "alternatives">>

DefaultMinTextLength == 10
DefaultMaxTextLength == 200

\* String.prototype.toLowerCase on one character
LowerChar(c) ==
  CASE c = "E" -> "e"
    [] c = "N" -> "n"
    [] OTHER -> c

\* String.prototype.trim on a sequence of characters
RECURSIVE TrimLeft(_)
TrimLeft(chars) ==
  IF chars # <<>> /\ Head(chars) = " " THEN TrimLeft(Tail(chars)) ELSE chars

RECURSIVE TrimRight(_)
TrimRight(chars) ==
  IF chars # <<>> /\ chars[Len(chars)] = " "
  THEN TrimRight(SubSeq(chars, 1, Len(chars) - 1)) ELSE chars

\* q.language.toLowerCase().trim()
LangCode(chars) == TrimRight(TrimLeft([i \in 1..Len(chars) |-> LowerChar(chars[i])]))

LowerLetters == {"e", "n", "g", "f", "i"}

\* /^[a-z]{2}$/.test(langCode)
MatchesTwoLetters(code) == Len(code) = 2 /\ \A i \in 1..2 : code[i] \in LowerLetters

\* q.text.trim().length
TrimmedLength(text) == text.length - text.padding

\* allowedIntents.includes(q.intent)
IntentAllowed(allowed, intent) == \E i \in 1..Len(allowed) : allowed[i] = intent

ConfigMin(config) ==
  IF ~config.minTextLength.given THEN DefaultMinTextLength ELSE config.minTextLength.n

ConfigMax(config) ==
  IF ~config.maxTextLength.given THEN DefaultMaxTextLength ELSE config.maxTextLength.n

ConfigIntents(config) ==
  IF ~config.allowedIntents.given THEN VALID_INTENTS ELSE config.allowedIntents.list

ValidationError(index, field, message) ==
  [index |-> index, field |-> field, message |-> message]

TextErrorsNoEmptyCheck(q, index, config) ==
  IF ~q.text.isString
  THEN <<ValidationError(index, "text", "Question text must be a string")>>
  ELSE (IF TrimmedLength(q.text) < ConfigMin(config)
        THEN <<ValidationError(index, "text", "Question text must be at least minLength characters")>>
        ELSE <<>>)
       \o (IF TrimmedLength(q.text) > ConfigMax(config)
           THEN <<ValidationError(index, "text", "Question text must not exceed maxLength characters")>>
           ELSE <<>>)

TextErrorsExclusiveMin(q, index, config) ==
  IF ~q.text.isString
  THEN <<ValidationError(index, "text", "Question text must be a string")>>
  ELSE (IF TrimmedLength(q.text) <= ConfigMin(config)
        THEN <<ValidationError(index, "text", "Question text must be at least minLength characters")>>
        ELSE <<>>)
       \o (IF TrimmedLength(q.text) > ConfigMax(config)
           THEN <<ValidationError(index, "text", "Question text must not exceed maxLength characters")>>
           ELSE <<>>)
       \o (IF TrimmedLength(q.text) = 0
           THEN <<ValidationError(index, "text", "Question text cannot be empty")>>
           ELSE <<>>)

TextErrors(q, index, config) ==
  IF ~q.text.isString
  THEN <<ValidationError(index, "text", "Question text must be a string")>>
  ELSE (IF TrimmedLength(q.text) < ConfigMin(config)
        THEN <<ValidationError(index, "text", "Question text must be at least minLength characters")>>
        ELSE <<>>)
       \o (IF TrimmedLength(q.text) > ConfigMax(config)
           THEN <<ValidationError(index, "text", "Question text must not exceed maxLength characters")>>
           ELSE <<>>)
       \o (IF TrimmedLength(q.text) = 0
           THEN <<ValidationError(index, "text", "Question text cannot be empty")>>
           ELSE <<>>)

IntentErrors(q, index, config) ==
  IF ~q.intent.isString
  THEN <<ValidationError(index, "intent", "Question intent must be a string")>>
  ELSE IF ~IntentAllowed(ConfigIntents(config), q.intent.s)
  THEN <<ValidationError(index, "intent", "Intent must be one of the allowed intents")>>
  ELSE <<>>

LanguageErrors(q, index) ==
  IF ~q.language.isString
  THEN <<ValidationError(index, "language", "Question language must be a string")>>
  ELSE IF Len(LangCode(q.language.chars)) # 2 \/ ~MatchesTwoLetters(LangCode(q.language.chars))
  THEN <<ValidationError(index, "language", "Language must be a valid ISO 639-1 code (2 letters)")>>
  ELSE <<>>

validateSingleQuestion(question, index, config) ==
  IF question.kind # "record"
  THEN <<ValidationError(index, "", "Question must be an object")>>
  ELSE TextErrors(question, index, config)
         \o IntentErrors(question, index, config)
         \o LanguageErrors(question, index)

\* the question pushed to validQuestions
Normalized(q) ==
  [text |-> [isString |-> TRUE, length |-> TrimmedLength(q.text), padding |-> 0],
   intent |-> q.intent.s,
   language |-> LangCode(q.language.chars)]

RECURSIVE ValidateFromDiscarding(_, _, _, _)
ValidateFromDiscarding(list, i, config, acc) ==
  IF i > Len(list) THEN acc
  ELSE IF validateSingleQuestion(list[i], i, config) = <<>>
  THEN ValidateFromDiscarding(list, i + 1, config,
                    [acc EXCEPT !.questions = Append(acc.questions, Normalized(list[i]))])
  ELSE ValidateFromDiscarding(list, i + 1, config,
                    [questions |-> <<>>,
                     errors |-> acc.errors \o validateSingleQuestion(list[i], i, config)])

\* the loop of validateQuestions from index i (0-based in the code, 1-based here)
RECURSIVE ValidateFrom(_, _, _, _)
ValidateFrom(list, i, config, acc) ==
  IF i > Len(list) THEN acc
  ELSE IF validateSingleQuestion(list[i], i, config) = <<>>
  THEN ValidateFrom(list, i + 1, config,
                    [acc EXCEPT !.questions = Append(acc.questions, Normalized(list[i]))])
  ELSE ValidateFrom(list, i + 1, config,
                    [acc EXCEPT !.errors = acc.errors \o validateSingleQuestion(list[i], i, config)])

\* input is [isArray, list]
validateQuestions(input, config) ==
  IF ~input.isArray
  THEN [valid |-> FALSE, questions |-> <<>>,
        errors |-> <<ValidationError(0, "questions", "Questions must be an array")>>]
  ELSE LET r == ValidateFrom(input.list, 1, config, [questions |-> <<>>, errors |-> <<>>])
       IN  [valid |-> r.errors = <<>>, questions |-> r.questions, errors |-> r.errors]

\* ------------------------------------------------------------------------
\* llmClients.ts: callLlm
\*
\* cl is the pair of module-level cached clients (anthropic, gemini); oracle
\* is what the provider's API does with the request: [threw, text].  prompt
\* is the sequence of words within the first 100 characters of the prompt.
\* ------------------------------------------------------------------------
MockTag(provider) ==
  CASE provider = "anthropic" -> "[ANTHROPIC"
    [] provider = "gemini" -> "[GEMINI"
    [] OTHER -> "[OPENAI"

ProseOf(wordSeq) == [i \in 1..Len(wordSeq) |-> SegProse(wordSeq[i])]

MockText(provider, prompt) ==
  <<SegProse(MockTag(provider)), SegProse("MOCK]")>> \o ProseOf(prompt)

\* getAnthropicClient / getGeminiClient: the cache after the call
ClientsAfter(provider, e, cl) ==
  CASE provider = "anthropic" ->
         [cl EXCEPT !.anthropic = cl.anthropic \/ hasValidApiKey(e.ANTHROPIC_API_KEY)]
    [] provider = "gemini" ->
         [cl EXCEPT !.gemini = cl.gemini \/ hasValidApiKey(e.GEMINI_API_KEY)]
    [] OTHER -> cl

HasClient(provider, cl) ==
  CASE provider = "anthropic" -> cl.anthropic
    [] provider = "gemini" -> cl.gemini
    [] OTHER -> TRUE

\* callOpenAI constructs its client on every call and never takes the mock
\* branch; callAnthropic and callGemini answer with a mock text when they have
\* no client
callLlm(provider, prompt, e, cl, oracle) ==
  LET after == ClientsAfter(provider, e, cl)
  IN  IF provider # "openai" /\ ~HasClient(provider, after)
      THEN [threw |-> FALSE, text |-> MockText(provider, prompt), clients |-> after]
      ELSE [threw |-> oracle.threw, text |-> oracle.text, clients |-> after]

\* ------------------------------------------------------------------------
\* agents.ts: questionGeneratorAgent
\*
\* A question is [id, text, language, intent]; an id is [prefix, a, b], which
\* stands for `${a}-${b}` of a template question and for `q-${a}-<time>` of a
\* generated one.
\* ------------------------------------------------------------------------
DefaultMinQuestions == 8
DefaultMaxQuestions == 12

QuestionId(prefix, a, b) == [prefix |-> prefix, a |-> a, b |-> b]

TemplateIntents == <<"find_service", "compare_options", "pricing">>

\* question k of the three written for the service at index idx
TemplateQuestion(service, idx, k) ==
  [id |-> QuestionId("", idx, k),
   text |-> [template |-> k, service |-> service],
   language |-> <<"e", "n">>,
   intent |-> TemplateIntents[k]]

generateTemplateQuestions(co) ==
  [n \in 1..(3 * Len(co.services)) |->
     TemplateQuestion(co.services[((n - 1) \div 3) + 1], (n - 1) \div 3,
                      ((n - 1) % 3) + 1)]

\* length of the question texts an array element can hold
CharCount(text) ==
  CASE text = "Which provider offers backup" -> 28
    [] text = "Pricing?" -> 8
    [] text = "What is the best hosting provider" -> 33
    [] text = "Who offers managed backup" -> 25
    [] text = "Which company sells backup" -> 26
    [] OTHER -> 26

CharsOf(str) ==
  CASE str = "en" -> <<"e", "n">>
    [] str = " EN " -> <<" ", "E", "N", " ">>
    [] OTHER -> <<"e", "n", "g">>

\* an element of the parsed array as validateSingleQuestion reads it
CandidateOf(item) ==
  [kind |-> "record",
   text |-> [isString |-> TRUE, length |-> CharCount(item.text), padding |-> 0],
   intent |-> [isString |-> TRUE, s |-> item.intent],
   language |-> [isString |-> TRUE, chars |-> CharsOf(item.language)]]

CandidatesOf(items) ==
  [isArray |-> TRUE, list |-> [i \in 1..Len(items) |-> CandidateOf(items[i])]]

\* validateQuestions(parseResult.questions): no config is passed
NoValidationConfig ==
  [minTextLength |-> [given |-> FALSE, n |-> 0, list |-> <<>>],
   maxTextLength |-> [given |-> FALSE, n |-> 0, list |-> <<>>],
   allowedIntents |-> [given |-> FALSE, n |-> 0, list |-> <<>>]]

\* options is [provider, minQuestions, maxQuestions, enableFallback]
GenProvider(options, e) ==
  IF options.provider # Undefined THEN options.provider
  ELSE IF Truthy(e.QUESTION_GENERATION_PROVIDER) THEN e.QUESTION_GENERATION_PROVIDER
  ELSE "openai"

GenMin(options) ==
  IF options.minQuestions.given THEN options.minQuestions.n ELSE DefaultMinQuestions

GenMax(options) ==
  IF options.maxQuestions.given THEN options.maxQuestions.n ELSE DefaultMaxQuestions

GenFallback(options) == options.enableFallback # "false"

GenReturn(qs) == [threw |-> FALSE, questions |-> qs]
GenThrow == [threw |-> TRUE, questions |-> <<>>]

FallbackOrThrow(co, options) ==
  IF GenFallback(options) THEN GenReturn(generateTemplateQuestions(co)) ELSE GenThrow

\* questions.slice(0, n) for n >= 0
SliceTo(seq, n) == SubSeq(seq, 1, IF n < Len(seq) THEN n ELSE Len(seq))

GeneratedQuestions(validated) ==
  [i \in 1..Len(validated) |->
     [id |-> QuestionId("q", i - 1, 0), text |-> validated[i].text,
      language |-> validated[i].language, intent |-> validated[i].intent]]

AfterGenerationKeepsValid(co, options, call) ==
  IF call.threw THEN FallbackOrThrow(co, options)
  ELSE LET parseResult == parseQuestionResponse(call.text)
           validationResult ==
             validateQuestions(CandidatesOf(parseResult.questions), NoValidationConfig)
           qs == GeneratedQuestions(validationResult.questions)
       IN  IF parseResult.success /\ Len(parseResult.questions) > 0
           THEN IF Len(validationResult.questions) > 0
                THEN IF Len(qs) < GenMin(options) /\ GenFallback(options)
                     THEN GenReturn(generateTemplateQuestions(co))
                     ELSE GenReturn(SliceTo(qs, GenMax(options)))
                ELSE FallbackOrThrow(co, options)
           ELSE FallbackOrThrow(co, options)

\* questionGeneratorAgent from the point where callLlm settled with `call`
AfterGeneration(co, options, call) ==
  IF call.threw THEN FallbackOrThrow(co, options)
  ELSE LET parseResult == parseQuestionResponse(call.text)
           validationResult ==
             validateQuestions(CandidatesOf(parseResult.questions), NoValidationConfig)
           qs == GeneratedQuestions(validationResult.questions)
       IN  IF parseResult.success /\ Len(parseResult.questions) > 0
           THEN IF validationResult.valid /\ Len(validationResult.questions) > 0
                THEN IF Len(qs) < GenMin(options) /\ GenFallback(options)
                     THEN GenReturn(generateTemplateQuestions(co))
                     ELSE GenReturn(SliceTo(qs, GenMax(options)))
                ELSE FallbackOrThrow(co, options)
           ELSE FallbackOrThrow(co, options)

\* ------------------------------------------------------------------------
\* services/visibilityScoring: scoreAnswerVisibility
\* ------------------------------------------------------------------------
NoWeights == [ok |-> FALSE, w |-> DEFAULT_SCORING_WEIGHTS]

\* number a weights field reads as in arithmetic (a missing field is NaN)
WeightsOf(parsed) == [f \in Factors |-> ToNumber(Field(parsed, f))]

\* envValue is [set, text]; the result is [ok, w], ok = FALSE standing for null
parseWeightsEnv(envValue) ==
  IF ~envValue.set \/ envValue.text = <<>> THEN NoWeights
  ELSE LET p == JsonParseText(envValue.text)
       IN  IF p.threw THEN NoWeights
           ELSE IF p.value.t \notin {"obj", "arr"} THEN NoWeights
           ELSE [ok |-> TRUE, w |-> WeightsOf(p.value)]

\* options is [given, provider, weights: [given, w], enableScoring], where
\* enableScoring is Undefined, "true" or "false"
NoOptions ==
  [given |-> FALSE, provider |-> Undefined,
   weights |-> [given |-> FALSE, w |-> DEFAULT_SCORING_WEIGHTS],
   enableScoring |-> Undefined]

EnableScoring(options, e) ==
  IF options.given /\ options.enableScoring # Undefined
  THEN options.enableScoring = "true"
  ELSE e.VISIBILITY_SCORING_ENABLED # "false"

ResolveWeightsEnvFirst(options, e) ==
  LET fromEnv == parseWeightsEnv(e.VISIBILITY_SCORING_WEIGHTS)
  IN  IF fromEnv.ok THEN fromEnv.w
      ELSE IF options.given /\ options.weights.given THEN options.weights.w
      ELSE DEFAULT_SCORING_WEIGHTS

ResolveWeights(options, e) ==
  LET fromEnv == parseWeightsEnv(e.VISIBILITY_SCORING_WEIGHTS)
  IN  IF options.given /\ options.weights.given THEN options.weights.w
      ELSE IF fromEnv.ok THEN fromEnv.w
      ELSE DEFAULT_SCORING_WEIGHTS

\* prompt.slice(0, 100) of the scoring prompt holds only its fixed preamble
ScoringPromptHead == <<"analyst">>

Heuristic(params, called, cl) ==
  [threw |-> FALSE, score |-> params.heuristicScore,
   rationale |-> params.heuristicRationale, breakdown |-> NoBreakdown,
   llmCalled |-> called, clients |-> cl]

ScoreTryBodyHeuristicRationale(params, scoringProvider, weights, e, cl, oracle) ==
  LET call == callLlm(scoringProvider, ScoringPromptHead, e, cl, oracle)
      parsed == parseScoringResponse(call.text)
  IN  IF call.threw
      THEN [threw |-> TRUE, value |-> Heuristic(params, TRUE, call.clients)]
      ELSE IF ~parsed.success \/ parsed.breakdown = NoBreakdown
      THEN [threw |-> FALSE, value |-> Heuristic(params, TRUE, call.clients)]
      ELSE [threw |-> FALSE,
            value |-> [threw |-> FALSE,
                       score |-> calculateVisibilityScore(parsed.breakdown, weights),
                       rationale |-> params.heuristicRationale,
                       breakdown |-> parsed.breakdown,
                       llmCalled |-> TRUE, clients |-> call.clients]]

\* the statements inside the try block: [threw, value]
ScoreTryBody(params, scoringProvider, weights, e, cl, oracle) ==
  LET call == callLlm(scoringProvider, ScoringPromptHead, e, cl, oracle)
      parsed == parseScoringResponse(call.text)
  IN  IF call.threw
      THEN [threw |-> TRUE, value |-> Heuristic(params, TRUE, call.clients)]
      ELSE IF ~parsed.success \/ parsed.breakdown = NoBreakdown
      THEN [threw |-> FALSE, value |-> Heuristic(params, TRUE, call.clients)]
      ELSE [threw |-> FALSE,
            value |-> [threw |-> FALSE,
                       score |-> calculateVisibilityScore(parsed.breakdown, weights),
                       rationale |-> IF parsed.breakdown.rationale # ""
                                     THEN parsed.breakdown.rationale
                                     ELSE params.heuristicRationale,
                       breakdown |-> parsed.breakdown,
                       llmCalled |-> TRUE, clients |-> call.clients]]

\* params is [provider, options, heuristicScore, heuristicRationale]; the
\* result is [threw, score, rationale, breakdown, llmCalled, clients]
scoreAnswerVisibilityNoCatch(params, e, cl, oracle) ==
  LET scoringProvider == selectScoringProvider(params.options.provider,
                           e.VISIBILITY_SCORING_PROVIDER, params.provider, e)
      weights == ResolveWeights(params.options, e)
      body == ScoreTryBody(params, scoringProvider, weights, e, cl, oracle)
  IN  IF ~EnableScoring(params.options, e) THEN Heuristic(params, FALSE, cl)
      ELSE IF scoringProvider = Null THEN Heuristic(params, FALSE, cl)
      ELSE [body.value EXCEPT !.threw = body.threw]

scoreAnswerVisibilityAlwaysCalls(params, e, cl, oracle) ==
  LET scoringProvider == selectScoringProvider(params.options.provider,
                           e.VISIBILITY_SCORING_PROVIDER, params.provider, e)
      target == IF scoringProvider = Null THEN params.provider ELSE scoringProvider
      weights == ResolveWeights(params.options, e)
      body == ScoreTryBody(params, target, weights, e, cl, oracle)
  IN  IF body.threw THEN Heuristic(params, TRUE, body.value.clients)
      ELSE body.value

scoreAnswerVisibility(params, e, cl, oracle) ==
  LET scoringProvider == selectScoringProvider(params.options.provider,
                           e.VISIBILITY_SCORING_PROVIDER, params.provider, e)
      weights == ResolveWeights(params.options, e)
      body == ScoreTryBody(params, scoringProvider, weights, e, cl, oracle)
  IN  IF ~EnableScoring(params.options, e) THEN Heuristic(params, FALSE, cl)
      ELSE IF scoringProvider = Null THEN Heuristic(params, FALSE, cl)
      ELSE IF body.threw THEN Heuristic(params, TRUE, body.value.clients)
      ELSE body.value

\* ------------------------------------------------------------------------
\* agents.ts: visibilityAgentForProvider
\*
\* A company is [name, services]; a question is [id, text]; name, services
\* and the words of texts are words, compared after toLowerCase.
\* ------------------------------------------------------------------------
Lower(word) ==
  CASE word \in {"Acme", "ACME"} -> "acme"
    [] word \in {"Backup", "BACKUP"} -> "backup"
    [] word = "Hosting" -> "hosting"
    [] OTHER -> word

\* the words of a text, lowercased
LowerWords(text) ==
  {Lower(text[i].w) : i \in {j \in 1..Len(text) : text[j].k = "prose"}}

\* lowerText.includes(word.toLowerCase())
IncludesLower(text, word) == Lower(word) \in LowerWords(text)

companyMentioned(co, answer) == IncludesLower(answer, co.name)

serviceMatched(co, answer) ==
  \E i \in 1..Len(co.services) : IncludesLower(answer, co.services[i])

heuristicScoreSwapped(co, answer) ==
  IF companyMentioned(co, answer) /\ serviceMatched(co, answer) THEN Rat(9, 10)
  ELSE IF companyMentioned(co, answer) THEN Rat(4, 10)
  ELSE IF serviceMatched(co, answer) THEN Rat(7, 10)
  ELSE Rat(1, 10)

heuristicScore(co, answer) ==
  IF companyMentioned(co, answer) /\ serviceMatched(co, answer) THEN Rat(9, 10)
  ELSE IF companyMentioned(co, answer) THEN Rat(7, 10)
  ELSE IF serviceMatched(co, answer) THEN Rat(4, 10)
  ELSE Rat(1, 10)

heuristicRationale(co, answer) ==
  IF companyMentioned(co, answer)
  THEN IF serviceMatched(co, answer)
       THEN "Company was mentioned; service was recognized."
       ELSE "Company was mentioned; service was not recognized."
  ELSE IF serviceMatched(co, answer)
       THEN "Company was not mentioned; service was recognized."
       ELSE "Company was not mentioned; service was not recognized."

relatedServiceLastMatch(co, question) ==
  IF \E i \in 1..Len(co.services) : IncludesLower(question.text, co.services[i])
  THEN LET i == CHOOSE j \in 1..Len(co.services) :
                  /\ IncludesLower(question.text, co.services[j])
                  /\ \A m \in (j + 1)..Len(co.services) :
                       ~IncludesLower(question.text, co.services[m])
       IN  co.services[i]
  ELSE IF Len(co.services) > 0 THEN co.services[1]
  ELSE Undefined

\* company.services.find(...) ?? company.services[0]
relatedService(co, question) ==
  IF \E i \in 1..Len(co.services) : IncludesLower(question.text, co.services[i])
  THEN LET i == CHOOSE j \in 1..Len(co.services) :
                  /\ IncludesLower(question.text, co.services[j])
                  /\ \A m \in 1..(j - 1) : ~IncludesLower(question.text, co.services[m])
       IN  co.services[i]
  ELSE IF Len(co.services) > 0 THEN co.services[1]
  ELSE Undefined

\* the words of the answer prompt that fall within prompt.slice(0, 100)
AnswerPromptHead(question) ==
  [i \in 1..Len(question.text) |-> question.text[i].w]

\* state of one provider's loop: pc is "awaitAnswer" (callLlm for question idx
\* pending), "awaitScore" (scoreAnswerVisibility for question idx pending),
\* "returned" or "threw"; scoredIds and scoringCalls are history variables
\* (the question each score was computed for, the scoring calls issued)
LoopStart(qs) ==
  [pc |-> IF Len(qs) = 0 THEN "returned" ELSE "awaitAnswer", idx |-> 1,
   answers |-> <<>>, scores |-> <<>>, scoredIds |-> <<>>, scoringCalls |-> 0,
   scoreThrew |-> FALSE]

PushFront(seq, item) == <<item>> \o seq

PushBack(seq, item) == Append(seq, item)

\* callLlm for question idx settles with `call`
AfterAnswer(loop, question, call) ==
  IF call.threw THEN [loop EXCEPT !.pc = "threw"]
  ELSE [loop EXCEPT !.pc = "awaitScore",
                    !.answers = PushBack(@, [questionId |-> question.id,
                                             question |-> question.text,
                                             answer |-> call.text])]

ScoreParams(provider, co, answer) ==
  [provider |-> provider, options |-> NoOptions,
   heuristicScore |-> heuristicScore(co, answer),
   heuristicRationale |-> heuristicRationale(co, answer)]

NextIdxSkipping(loop, qs) == loop.idx + 2

NextIdx(loop, qs) == loop.idx + 1

\* scoreAnswerVisibility for question idx settles with `result`
AfterScore(provider, co, qs, loop, result) ==
  IF result.threw THEN [loop EXCEPT !.pc = "threw", !.scoreThrew = TRUE]
  ELSE [loop EXCEPT
          !.scores = PushBack(@, [provider |-> provider,
                                  service |-> relatedService(co, qs[loop.idx]),
                                  score |-> result.score,
                                  rationale |-> result.rationale]),
          !.scoredIds = Append(@, qs[loop.idx].id),
          !.scoringCalls = IF result.llmCalled THEN @ + 1 ELSE @,
          !.idx = NextIdx(loop, qs),
          !.pc = IF NextIdx(loop, qs) > Len(qs) THEN "returned" ELSE "awaitAnswer"]

\* ------------------------------------------------------------------------
\* agents.ts: dashboardAgent (grouping, averages, comments)
\* ------------------------------------------------------------------------
RECURSIVE AllScores(_)
AllScores(results) ==
  IF results = <<>> THEN <<>>
  ELSE Head(results).scores \o AllScores(Tail(results))

\* keys of serviceToScores in insertion order
RECURSIVE ServiceKeys(_, _)
ServiceKeys(scores, seen) ==
  IF scores = <<>> THEN seen
  ELSE IF \E i \in 1..Len(seen) : seen[i] = Head(scores).service
       THEN ServiceKeys(Tail(scores), seen)
       ELSE ServiceKeys(Tail(scores), Append(seen, Head(scores).service))

RECURSIVE ScoresOfCaseInsensitive(_, _)
ScoresOfCaseInsensitive(scores, service) ==
  IF scores = <<>> THEN <<>>
  ELSE IF Lower(Head(scores).service) = Lower(service)
       THEN <<Head(scores).score>> \o ScoresOfCaseInsensitive(Tail(scores), service)
       ELSE ScoresOfCaseInsensitive(Tail(scores), service)

RECURSIVE ScoresOf(_, _)
ScoresOf(scores, service) ==
  IF scores = <<>> THEN <<>>
  ELSE IF Head(scores).service = service
       THEN <<Head(scores).score>> \o ScoresOf(Tail(scores), service)
       ELSE ScoresOf(Tail(scores), service)

RECURSIVE SumOf(_)
SumOf(arr) == IF arr = <<>> THEN Zero ELSE RAdd(Head(arr), SumOf(Tail(arr)))

avgScoreNoDivide(arr) == SumOf(arr)

avgScore(arr) == RDiv(SumOf(arr), Rat(Len(arr), 1))

WellThreshold == Rat(75, 100)
ModerateThreshold == Rat(4, 10)

CommentsForStrict(avg) ==
  IF RGt(avg, WellThreshold)
  THEN <<"Service is well represented in LLM answers.">>
  ELSE IF RGt(avg, ModerateThreshold)
  THEN <<"Service has moderate visibility. There is room for improvement.">>
  ELSE <<"Service is almost invisible in LLM answers. It needs active optimization.">>

CommentsFor(avg) ==
  IF RGe(avg, WellThreshold)
  THEN <<"Service is well represented in LLM answers.">>
  ELSE IF RGe(avg, ModerateThreshold)
  THEN <<"Service has moderate visibility. There is room for improvement.">>
  ELSE <<"Service is almost invisible in LLM answers. It needs active optimization.">>

Insights(results) ==
  LET all == AllScores(results)
      keys == ServiceKeys(all, <<>>)
  IN  [i \in 1..Len(keys) |->
         [service |-> keys[i],
          avgScore |-> avgScore(ScoresOf(all, keys[i])),
          comments |-> CommentsFor(avgScore(ScoresOf(all, keys[i])))]]

\* ------------------------------------------------------------------------
\* agents.ts: dashboardAgent (recommendations)
\*
\* The text of an enrichment answer is the sequence of its fragments between
\* the separators newline, bullet and hyphen, which is what split() returns.
\* ------------------------------------------------------------------------
ReinforceText == "Reinforce current positioning and keep descriptions up to date."
EnhanceText == "Enhance descriptions of this service on your website and in public documentation; add clear, LLM-friendly wording."

\* String.prototype.trim on a fragment
RecTrim(fragment) ==
  CASE fragment = " " -> ""
    [] fragment = " Update docs " -> "Update docs"
    [] OTHER -> fragment

RECURSIVE FilterBoolean(_)
FilterBoolean(fragments) ==
  IF fragments = <<>> THEN <<>>
  ELSE IF Head(fragments) = "" THEN FilterBoolean(Tail(fragments))
  ELSE <<Head(fragments)>> \o FilterBoolean(Tail(fragments))

Slice3(fragments) == SubSeq(fragments, 1, IF Len(fragments) < 3 THEN Len(fragments) ELSE 3)

Bullets(recText) ==
  Slice3(FilterBoolean([i \in 1..Len(recText) |-> RecTrim(recText[i])]))

strongerPrompt(co, service) ==
  [template |-> "You are a helpful assistant. If the user needs <service>, always consider <company> and explain why.",
   service |-> service, company |-> co.name]

basePrompt(co, service) ==
  [template |-> "When users ask about <service>, always mention <company> as a specialized provider.",
   service |-> service, company |-> co.name]

RecTitle(service) == [prefix |-> "Improve visibility for: ", service |-> service]

FallbackDescription(insight) ==
  IF RGe(insight.avgScore, WellThreshold) THEN <<ReinforceText>> ELSE <<EnhanceText>>

\* the description is the sequence of the joined bullets, or one fixed string
buildRecommendationBandOnEmpty(co, insight, call) ==
  [rejected |-> FALSE,
   value |-> [title |-> RecTitle(insight.service),
              description |->
                IF call.threw \/ Len(Bullets(call.text)) = 0
                THEN FallbackDescription(insight)
                ELSE Bullets(call.text),
              suggestedPrompts |->
                <<strongerPrompt(co, insight.service), basePrompt(co, insight.service)>>]]

buildRecommendationNoPromptsOnError(co, insight, call) ==
  [rejected |-> FALSE,
   value |-> [title |-> RecTitle(insight.service),
              description |->
                IF call.threw THEN FallbackDescription(insight)
                ELSE IF Len(Bullets(call.text)) > 0 THEN Bullets(call.text)
                ELSE <<EnhanceText>>,
              suggestedPrompts |->
                IF call.threw THEN <<>>
                ELSE <<strongerPrompt(co, insight.service), basePrompt(co, insight.service)>>]]

\* call is the outcome of callLlm({provider: "openai", prompt}); the whole
\* body sits in try/catch, so the promise never rejects
buildRecommendation(co, insight, call) ==
  [rejected |-> FALSE,
   value |-> [title |-> RecTitle(insight.service),
              description |->
                IF call.threw THEN FallbackDescription(insight)
                ELSE IF Len(Bullets(call.text)) > 0 THEN Bullets(call.text)
                ELSE <<EnhanceText>>,
              suggestedPrompts |->
                <<strongerPrompt(co, insight.service), basePrompt(co, insight.service)>>]]

\* the wrapper of Promise.all over the recommendation promises
resolveRecommendation(co, insight, settled) ==
  IF settled.rejected
  THEN [title |-> RecTitle(insight.service),
        description |-> FallbackDescription(insight),
        suggestedPrompts |->
          <<strongerPrompt(co, insight.service), basePrompt(co, insight.service)>>]
  ELSE settled.value

\* ------------------------------------------------------------------------
\* agents.ts: runVisibilityFlow (provider fan-out and join)
\* ------------------------------------------------------------------------
Settled(loop) == loop.pc \in {"returned", "threw"}

AnySettled(ls) == \E p \in Providers : Settled(ls[p])

AllSettled(ls) == \A p \in Providers : Settled(ls[p])

ProviderResultPartial(provider, loop) ==
  [provider |-> provider, answers |-> loop.answers, scores |-> loop.scores]

ProviderResult(provider, loop) ==
  IF loop.pc = "threw"
  THEN [provider |-> provider, answers |-> <<>>, scores |-> <<>>]
  ELSE [provider |-> provider, answers |-> loop.answers, scores |-> loop.scores]

ProviderResults(ls) ==
  [i \in 1..Len(ProviderOrder) |-> ProviderResult(ProviderOrder[i], ls[ProviderOrder[i]])]

\* ------------------------------------------------------------------------
\* Specification SpecCalc: calculateVisibilityScore applied to drawn inputs
\* ------------------------------------------------------------------------
Idle == [on |-> FALSE]
NoResult == [none |-> TRUE]
NoSeq == <<>>

Fractions == {Rat(k, FScale) : k \in 0..FScale}
Bits == {Zero, One}

MkBreakdown(p, c, pos, dd, ar, sm, cnt, rat) ==
  [mentionPresence |-> p, mentionCount |-> cnt, mentionContext |-> c,
   mentionPosition |-> pos, descriptionDetail |-> dd, answerRelevance |-> ar,
   serviceMatch |-> sm, rationale |-> rat]

MkWeights(p, c, pos, dd, ar, sm) ==
  [mentionPresence |-> p, mentionContext |-> c, mentionPosition |-> pos,
   descriptionDetail |-> dd, answerRelevance |-> ar, serviceMatch |-> sm]

CalcBreakdowns ==
  {MkBreakdown(p, c, pos, dd, ar, sm, Zero, "") :
     p \in Fractions, c \in Bits, pos \in Bits, dd \in Bits, ar \in Bits, sm \in Bits}

WeightVals == {Rat(k, 1) : k \in 0..MaxWeight}

\* weights a caller or the environment can supply: non-negative ones, the
\* defaults, and records with one negative or one missing (NaN) entry
NonNegWeightSets == [Factors -> WeightVals]
OddWeightSets ==
  {[w EXCEPT ![f] = v] : w \in [Factors -> Bits], f \in Factors, v \in {Rat(-1, 1), NaN}}
CalcWeights == NonNegWeightSets \cup {DEFAULT_SCORING_WEIGHTS} \cup OddWeightSets

InitCalc ==
  /\ calc \in [on : {TRUE}, b : CalcBreakdowns, w : CalcWeights, out : {NoResult}]
  /\ sel = Idle /\ sc = Idle /\ env = Idle /\ clients = Idle /\ world = Idle
  /\ company = Idle /\ questions = NoSeq /\ flowPc = "idle" /\ loops = Idle
  /\ providerResults = NoSeq /\ insights = NoSeq
  /\ dash = Idle /\ qp = Idle /\ qv = Idle /\ qg = Idle

Calc ==
  /\ calc.on
  /\ calc.out = NoResult
  /\ calc' = [calc EXCEPT !.out = calculateVisibilityScore(calc.b, calc.w)]
  /\ UNCHANGED <<sel, sc, env, clients, world, company, questions,
                 flowPc, loops, providerResults, insights,
                 dash, qp, qv, qg>>

NextCalc == Calc

SpecCalc == InitCalc /\ [][NextCalc]_vars

ValidBreakdown(b) == \A f \in Factors : InUnit(b[f])
NonNegWeights(w) == \A f \in Factors : RGe(w[f], Zero)
CalcDone == calc.on /\ calc.out # NoResult

\* C2: for a breakdown with six factors in [0,1] and six non-negative weights
\* whose sum is > 0, calculateVisibilityScore returns a value in [0,1].
C2_ScoreInUnit ==
  (CalcDone /\ ValidBreakdown(calc.b) /\ NonNegWeights(calc.w)
     /\ RGt(WeightSum(calc.w), Zero))
  => InUnit(calc.out)

C2_Witness ==
  /\ CalcDone /\ ValidBreakdown(calc.b) /\ NonNegWeights(calc.w)
  /\ RGt(WeightSum(calc.w), One)
  /\ RGt(calc.b.mentionPresence, Zero)
  /\ RGt(calc.out, Zero) /\ RLt(calc.out, One)

AllOthersOne(b) ==
  \A f \in Factors \ {"mentionPresence"} : b[f] = One

\* C3 (as stated): for a breakdown with mentionPresence = 0 and every weight
\* set, calculateVisibilityScore returns min(baseScore, 0.2).
C3_Original ==
  (CalcDone /\ calc.b.mentionPresence = Zero)
  => calc.out = MathMin(BaseScore(calc.b, calc.w), CapNotMentioned)

\* C3 (amended): for a breakdown with mentionPresence = 0 the result is
\* <= 0.2 for every weight set; it equals min(baseScore, 0.2) whenever that
\* value is a finite number >= 0 (always so for non-negative weights) and is 0
\* otherwise; with the default weights and all other factors 1 it is 0.2.
C3_CappedWhenNotMentioned ==
  (CalcDone /\ calc.b.mentionPresence = Zero)
  => LET capped == MathMin(BaseScore(calc.b, calc.w), CapNotMentioned)
     IN  /\ RLe(calc.out, CapNotMentioned)
         /\ RGe(capped, Zero) => calc.out = capped
         /\ ~RGe(capped, Zero) => calc.out = Zero
         /\ NonNegWeights(calc.w) => calc.out = capped
         /\ (calc.w = DEFAULT_SCORING_WEIGHTS /\ AllOthersOne(calc.b))
              => calc.out = CapNotMentioned

C3_Witness ==
  /\ CalcDone /\ calc.b.mentionPresence = Zero
  /\ calc.w = DEFAULT_SCORING_WEIGHTS /\ AllOthersOne(calc.b)
  /\ calc.out = CapNotMentioned
  /\ RGt(BaseScore(calc.b, calc.w), CapNotMentioned)

\* C4: if the six supplied weights sum to exactly 0, calculateVisibilityScore
\* returns the value it returns for the documented default weights.
C4_ZeroSumUsesDefaults ==
  (CalcDone /\ StrictEq(WeightSum(calc.w), Zero))
  => calc.out = calculateVisibilityScore(calc.b,
                  MkWeights(Rat(20, 100), Rat(25, 100), Rat(15, 100),
                            Rat(20, 100), Rat(10, 100), Rat(10, 100)))

C4_Witness ==
  /\ CalcDone /\ StrictEq(WeightSum(calc.w), Zero)
  /\ \E f \in Factors : calc.w[f] # Zero
  /\ RGt(calc.out, Zero)

\* ------------------------------------------------------------------------
\* Specification SpecSelect: selectScoringProvider applied to drawn inputs
\* ------------------------------------------------------------------------
KeyVals == {Undefined, "", "  ", "sk-key"}

MkEnv(ko, ka, kg, enabled, prov, weights) ==
  [OPENAI_API_KEY |-> ko, ANTHROPIC_API_KEY |-> ka, GEMINI_API_KEY |-> kg,
   VISIBILITY_SCORING_ENABLED |-> enabled,
   VISIBILITY_SCORING_PROVIDER |-> prov,
   VISIBILITY_SCORING_WEIGHTS |-> weights]

\* process.env.VISIBILITY_SCORING_PROVIDER is cast, not validated
EnvProviderVals == Providers \cup {Undefined, "", "azure"}

InitSelect ==
  /\ env \in {MkEnv(ko, ka, kg, Undefined, Undefined, Undefined) :
                ko \in KeyVals, ka \in KeyVals, kg \in KeyVals}
  /\ sel \in [on : {TRUE}, optionProvider : Providers \cup {Undefined},
              envProvider : EnvProviderVals, fallbackProvider : Providers,
              out : {Undefined}]
  /\ calc = Idle /\ sc = Idle /\ clients = Idle /\ world = Idle
  /\ company = Idle /\ questions = NoSeq /\ flowPc = "idle" /\ loops = Idle
  /\ providerResults = NoSeq /\ insights = NoSeq
  /\ dash = Idle /\ qp = Idle /\ qv = Idle /\ qg = Idle

Select ==
  /\ sel.on
  /\ sel.out = Undefined
  /\ sel' = [sel EXCEPT !.out = selectScoringProvider(sel.optionProvider,
                                  sel.envProvider, sel.fallbackProvider, env)]
  /\ UNCHANGED <<calc, sc, env, clients, world, company, questions,
                 flowPc, loops, providerResults, insights,
                 dash, qp, qv, qg>>

NextSelect == Select

SpecSelect == InitSelect /\ [][NextSelect]_vars

SelectDone == sel.on /\ sel.out # Undefined

\* a provider is credentialed when its key is set and not blank
Credentialed(p) ==
  LET key == CASE p = "openai" -> env.OPENAI_API_KEY
               [] p = "anthropic" -> env.ANTHROPIC_API_KEY
               [] p = "gemini" -> env.GEMINI_API_KEY
               [] OTHER -> Undefined
  IN  key \in {"sk-key"}

ScoringFields(p, cnt, c, pos, dd, ar, sm, rat) ==
  [mentionPresence |-> p, mentionCount |-> cnt, mentionContext |-> c,
   mentionPosition |-> pos, descriptionDetail |-> dd, answerRelevance |-> ar,
   serviceMatch |-> sm, rationale |-> rat]

Half == Rat(1, 2)

GoodObj ==
  JsonObj(ScoringFields(RawNum(One), RawNum(Rat(2, 1)), RawNum(Half), RawNum(One),
                        RawNum(Half), RawNum(One), RawNum(Zero),
                        RawStr("Named first with detail.", NaN)))
NoRationaleObj ==
  JsonObj(ScoringFields(RawNum(Half), RawNum(One), RawNum(One), RawNum(Zero),
                        RawNum(One), RawNum(One), RawNum(One), RawStr("", Zero)))
NotMentionedObj ==
  JsonObj(ScoringFields(RawNum(Zero), RawNum(Zero), RawNum(One), RawNum(One),
                        RawNum(One), RawNum(One), RawNum(One),
                        RawStr("Company is absent.", NaN)))
SloppyObj ==
  JsonObj(ScoringFields(RawNum(Rat(3, 2)), RawStr("2", Rat(2, 1)), RawStr("0.5", Half),
                        RawNum(Rat(-1, 1)), RawStr("high", NaN), RawNull, RawUndef,
                        RawNum(One)))

TextGood == <<SegJson(GoodObj)>>
TextNoRationale == <<SegJson(NoRationaleObj)>>
TextNotMentioned == <<SegJson(NotMentionedObj)>>
TextSloppy == <<SegJson(SloppyObj)>>
TextJsonFence == <<SegProse("Here"), SegFence("json", GoodObj)>>
TextFence == <<SegFence("", NoRationaleObj), SegProse("Done")>>
TextArray == <<SegJson(JsonArr)>>
TextNull == <<SegJson(JsonNull)>>
TextMalformed == <<SegJson(JsonBad)>>
TextProse == <<SegProse("Here"), SegJson(GoodObj)>>
TextTaggedOther == <<SegFence("js", GoodObj)>>
TextMock == <<SegProse("[OPENAI"), SegProse("MOCK]"), SegProse("analyst")>>
TextEmpty == <<>>

\* responses from which no breakdown can be parsed
UnparseableTexts ==
  {TextNull, TextMalformed, TextProse, TextTaggedOther, TextMock, TextEmpty}
\* responses that hold an object (or array) directly or in a usable fence
ParseableTexts ==
  {TextGood, TextNoRationale, TextNotMentioned, TextSloppy, TextJsonFence,
   TextFence, TextArray}
ScoringTexts == UnparseableTexts \cup ParseableTexts

Threw == [threw |-> TRUE, text |-> <<>>]
Returned(text) == [threw |-> FALSE, text |-> text]
ScoringOracles == {Threw} \cup {Returned(t) : t \in ScoringTexts}

EnvUnset == [set |-> FALSE, text |-> <<>>]
EnvText(text) == [set |-> TRUE, text |-> text]

WeightsObj(w) == JsonObj([f \in Factors |-> RawNum(w[f])])
PresenceOnly == MkWeights(One, Zero, Zero, Zero, Zero, Zero)
ContextHeavy == MkWeights(One, Rat(3, 1), Zero, Zero, Zero, Zero)
SkewedWeights == MkWeights(One, Rat(-2, 1), Zero, Zero, Zero, Zero)

EnvWeightVals ==
  {EnvUnset, EnvText(<<SegJson(JsonBad)>>), EnvText(<<SegJson(WeightsObj(PresenceOnly))>>),
   EnvText(<<SegJson(JsonObj(<<>>))>>)}

OptionVals ==
  {NoOptions,
   [NoOptions EXCEPT !.given = TRUE, !.enableScoring = "false"],
   [NoOptions EXCEPT !.given = TRUE, !.enableScoring = "true"],
   [NoOptions EXCEPT !.given = TRUE, !.provider = "anthropic"],
   [NoOptions EXCEPT !.given = TRUE, !.weights = [given |-> TRUE, w |-> ContextHeavy]]}

NotScored ==
  [threw |-> FALSE, score |-> Zero, rationale |-> "", breakdown |-> NoBreakdown,
   llmCalled |-> FALSE, clients |-> [anthropic |-> FALSE, gemini |-> FALSE]]

SimpleKeyVals == {Undefined, "sk-key"}

NoClients == [anthropic |-> FALSE, gemini |-> FALSE]

InitScore ==
  /\ env \in {MkEnv(ko, ka, kg, en, pr, w) :
                ko \in SimpleKeyVals, ka \in SimpleKeyVals, kg \in SimpleKeyVals,
                en \in {Undefined, "false", "true"}, pr \in {Undefined, "gemini"},
                w \in EnvWeightVals}
  /\ clients = NoClients
  /\ sc \in [on : {TRUE},
              params : [provider : Providers, options : OptionVals,
                        heuristicScore : {Rat(9, 10), Rat(1, 10)},
                        heuristicRationale : {"Company was mentioned; service was recognized."}],
              oracle : ScoringOracles, done : {FALSE}, out : {NotScored}]
  /\ calc = Idle /\ sel = Idle /\ world = Idle
  /\ company = Idle /\ questions = NoSeq /\ flowPc = "idle" /\ loops = Idle
  /\ providerResults = NoSeq /\ insights = NoSeq
  /\ dash = Idle /\ qp = Idle /\ qv = Idle /\ qg = Idle

Score ==
  /\ sc.on
  /\ ~sc.done
  /\ sc' = [sc EXCEPT !.done = TRUE,
                       !.out = scoreAnswerVisibility(sc.params, env, clients, sc.oracle)]
  /\ clients' = sc'.out.clients
  /\ UNCHANGED <<calc, sel, env, world, company, questions,
                 flowPc, loops, providerResults, insights,
                 dash, qp, qv, qg>>

NextScore == Score

SpecScore == InitScore /\ [][NextScore]_vars

ScoreDone == sc.on /\ sc.done

ReturnsHeuristic ==
  /\ sc.out.score = sc.params.heuristicScore
  /\ sc.out.rationale = sc.params.heuristicRationale
  /\ sc.out.breakdown = NoBreakdown

\* C1: scoreAnswerVisibility never raises to its caller; when the scoring
\* provider call throws, or the response cannot be parsed into a breakdown,
\* it returns exactly the supplied heuristic score and rationale, no breakdown.
C1_NeverRaises ==
  ScoreDone =>
    /\ ~sc.out.threw
    /\ (sc.out.llmCalled /\ sc.oracle.threw) => ReturnsHeuristic
    /\ (sc.out.llmCalled /\ ~sc.oracle.threw /\ sc.oracle.text \in UnparseableTexts)
         => ReturnsHeuristic

C1_Witness ==
  /\ ScoreDone /\ sc.out.llmCalled /\ sc.oracle.threw
  /\ ~sc.out.threw /\ ReturnsHeuristic
  /\ sc.params.heuristicScore = Rat(9, 10)

ParsedCase ==
  ScoreDone /\ sc.out.llmCalled /\ ~sc.oracle.threw /\ sc.oracle.text \in ParseableTexts

\* C7: when the scoring response is parsed successfully, scoreAnswerVisibility
\* returns score = calculateVisibilityScore(breakdown, resolved weights) with
\* the full breakdown; the rationale is the breakdown's own when non-empty and
\* the heuristic rationale otherwise.
C7_ParsedScore ==
  ParsedCase =>
    /\ ~sc.out.threw
    /\ sc.out.breakdown # NoBreakdown
    /\ ValidBreakdown(sc.out.breakdown)
    /\ sc.out.score = calculateVisibilityScore(sc.out.breakdown,
                                               ResolveWeights(sc.params.options, env))
    /\ sc.out.breakdown.rationale # "" => sc.out.rationale = sc.out.breakdown.rationale
    /\ sc.out.breakdown.rationale = "" => sc.out.rationale = sc.params.heuristicRationale
    /\ sc.oracle.text \in {TextGood, TextJsonFence}
         => sc.out.breakdown = MkBreakdown(One, Half, One, Half, One, Zero, Rat(2, 1),
                                           "Named first with detail.")
    /\ sc.oracle.text \in {TextNoRationale, TextFence}
         => sc.out.breakdown = MkBreakdown(Half, One, Zero, One, One, One, One, "")

C7_Witness ==
  /\ ParsedCase
  /\ sc.oracle.text = TextFence
  /\ sc.out.rationale = sc.params.heuristicRationale
  /\ sc.params.options.weights.given
  /\ sc.out.score = Rat(7, 8)

\* ------------------------------------------------------------------------
\* Specification SpecFlow: runVisibilityFlow from the provider fan-out on
\* ------------------------------------------------------------------------
Text(wordSeq) == ProseOf(wordSeq)

AnswerBoth == Text(<<"Consider", "Acme", "for", "BACKUP">>)
AnswerCompany == Text(<<"ACME", "is", "great">>)
AnswerService == Text(<<"Rival", "offers", "Backup">>)
AnswerNeither == Text(<<"No", "idea">>)

QuestionTexts ==
  <<Text(<<"Which", "companies", "provide", "backup">>),
    Text(<<"Best", "backup", "and", "Hosting", "options">>),
    Text(<<"How", "much", "is", "it">>)>>

QuestionAt(i) == [id |-> i, text |-> QuestionTexts[((i - 1) % 3) + 1]]

QuestionLists == {[i \in 1..n |-> QuestionAt(i)] : n \in 0..MaxQuestions}

Companies ==
  {[on |-> TRUE, name |-> "Acme", services |-> <<"hosting", "Backup">>]}

\* what the providers can do in a run: the texts an answer call can return
\* and the outcomes of a scoring call
MkWorld(answers, scoring) == [on |-> TRUE, answers |-> answers, scoring |-> scoring]

FlowWorlds ==
  {MkWorld({AnswerBoth, AnswerNeither}, {Returned(TextGood)}),
   MkWorld({AnswerCompany, AnswerService}, {Threw, Returned(TextMalformed)}),
   MkWorld({AnswerBoth}, {Returned(TextNotMentioned), Returned(TextMock)}),
   MkWorld({AnswerService}, {Returned(TextSloppy), Returned(TextFence)})}

Key == "sk-key"

FlowEnvs ==
  {MkEnv(Key, Key, Key, Undefined, Undefined, EnvUnset),
   MkEnv(Key, Key, Key, "false", Undefined, EnvUnset),
   MkEnv(Undefined, Undefined, Undefined, Undefined, Undefined, EnvUnset),
   MkEnv(Undefined, Key, "  ", Undefined, Undefined, EnvUnset),
   MkEnv(Key, Undefined, Undefined, "false", "openai", EnvUnset),
   MkEnv(Key, Key, Undefined, "true", "anthropic",
         EnvText(<<SegJson(WeightsObj(SkewedWeights))>>))}

NotStarted ==
  [pc |-> "notStarted", idx |-> 0, answers |-> <<>>, scores |-> <<>>,
   scoredIds |-> <<>>, scoringCalls |-> 0, scoreThrew |-> FALSE]

InitFlow ==
  /\ env \in FlowEnvs
  /\ world \in FlowWorlds
  /\ company \in Companies
  /\ questions \in QuestionLists
  /\ clients = NoClients
  /\ flowPc = "start"
  /\ loops = [p \in Providers |-> NotStarted]
  /\ providerResults = NoSeq /\ insights = NoSeq
  /\ calc = Idle /\ sel = Idle /\ sc = Idle
  /\ dash = Idle /\ qp = Idle /\ qv = Idle /\ qg = Idle

\* providers.map(async (p) => ...): every loop runs to its first await
StartLoops ==
  /\ flowPc = "start"
  /\ flowPc' = "loops"
  /\ loops' = [p \in Providers |-> LoopStart(questions)]
  /\ clients' = IF Len(questions) = 0 THEN clients
                ELSE ClientsAfter("gemini", env, ClientsAfter("anthropic", env, clients))
  /\ UNCHANGED <<calc, sel, sc, env, world, company, questions,
                 providerResults, insights,
                 dash, qp, qv, qg>>

AnswerOracles == {Threw} \cup {Returned(t) : t \in world.answers}

\* the pending callLlm of provider p's loop settles
AnswerResolve(p) ==
  /\ flowPc = "loops"
  /\ loops[p].pc = "awaitAnswer"
  /\ \E oracle \in AnswerOracles :
       loops' = [loops EXCEPT ![p] =
                   AfterAnswer(loops[p], questions[loops[p].idx],
                               callLlm(p, AnswerPromptHead(questions[loops[p].idx]),
                                       env, clients, oracle))]
  /\ clients' = ClientsAfter(p, env, clients)
  /\ UNCHANGED <<calc, sel, sc, env, world, company, questions, flowPc,
                 providerResults, insights,
                 dash, qp, qv, qg>>

LastAnswer(loop) == loop.answers[Len(loop.answers)].answer

\* the pending scoreAnswerVisibility of provider p's loop settles; the loop
\* pushes the score and issues the next answer call or returns
ScoreResolve(p) ==
  /\ flowPc = "loops"
  /\ loops[p].pc = "awaitScore"
  /\ \E oracle \in world.scoring :
       loops' = [loops EXCEPT ![p] =
                   AfterScore(p, company, questions, loops[p],
                              scoreAnswerVisibility(
                                ScoreParams(p, company, LastAnswer(loops[p])),
                                env, clients, oracle))]
  /\ clients' = clients
  /\ UNCHANGED <<calc, sel, sc, env, world, company, questions, flowPc,
                 providerResults, insights,
                 dash, qp, qv, qg>>

\* Promise.all resolves; dashboardAgent groups the scores into insights
Join ==
  /\ flowPc = "loops"
  /\ AllSettled(loops)
  /\ providerResults' = ProviderResults(loops)
  /\ insights' = Insights(ProviderResults(loops))
  /\ flowPc' = "dashboard"
  /\ UNCHANGED <<calc, sel, sc, env, clients, world, company, questions, loops,
                 dash, qp, qv, qg>>

\* dashboardAgent returns and runVisibilityFlow returns its result
Finish ==
  /\ flowPc = "dashboard"
  /\ flowPc' = "done"
  /\ UNCHANGED <<calc, sel, sc, env, clients, world, company, questions, loops,
                 providerResults, insights,
                 dash, qp, qv, qg>>

NextFlow ==
  \/ StartLoops
  \/ \E p \in Providers : AnswerResolve(p)
  \/ \E p \in Providers : ScoreResolve(p)
  \/ Join
  \/ Finish

SpecFlow == InitFlow /\ [][NextFlow]_vars

\* ------------------------------------------------------------------------
\* Specification SpecDegraded: single scoring calls and whole runs together
\* ------------------------------------------------------------------------
InitDegraded == InitScore \/ InitFlow

NextDegraded == NextScore \/ NextFlow

SpecDegraded == InitDegraded /\ [][NextDegraded]_vars

InFlow == flowPc # "idle"
Joined == flowPc \in {"dashboard", "done"}

\* scoring is switched off: by the option when it is given, else by the
\* environment value "false"
ScoringDisabled(options) ==
  \/ options.given /\ options.enableScoring = "false"
  \/ /\ ~(options.given /\ options.enableScoring \in {"true", "false"})
     /\ env.VISIBILITY_SCORING_ENABLED = "false"

NoneCredentialed == \A p \in Providers : ~Credentialed(p)

\* the heuristic value of an answer, by the table of the claim
TableScore(answer) ==
  LET co == "acme" \in LowerWords(answer)
      sv == \E i \in 1..Len(company.services) :
              Lower(company.services[i]) \in LowerWords(answer)
  IN  CASE co /\ sv -> Rat(9, 10)
        [] co /\ ~sv -> Rat(7, 10)
        [] ~co /\ sv -> Rat(4, 10)
        [] OTHER -> Rat(1, 10)

HeuristicScores(answers, scores) ==
  \A i \in 1..Len(scores) :
    /\ i <= Len(answers)
    /\ scores[i].score = TableScore(answers[i].answer)
    /\ scores[i].rationale = heuristicRationale(company, answers[i].answer)

\* C6: in the degraded modes (scoring disabled, or no provider credentialed)
\* scoreAnswerVisibility returns the supplied heuristic score and rationale,
\* raises no error and issues no LLM scoring call; every VisibilityScore of a
\* run then carries the heuristic value of its answer (0.9 company and
\* service, 0.7 company only, 0.4 service only, 0.1 neither).
C6_DegradedIsHeuristic ==
  /\ (ScoreDone /\ (ScoringDisabled(sc.params.options) \/ NoneCredentialed))
       => (~sc.out.threw /\ ReturnsHeuristic /\ ~sc.out.llmCalled)
  /\ (InFlow /\ (ScoringDisabled(NoOptions) \/ NoneCredentialed))
       => /\ \A p \in Providers :
               /\ loops[p].scoringCalls = 0
               /\ ~loops[p].scoreThrew
               /\ HeuristicScores(loops[p].answers, loops[p].scores)
          /\ \A i \in 1..Len(providerResults) :
               HeuristicScores(providerResults[i].answers, providerResults[i].scores)

ScoreValues(i) ==
  {providerResults[i].scores[j].score : j \in 1..Len(providerResults[i].scores)}

C6_Witness ==
  /\ flowPc = "done"
  /\ ScoringDisabled(NoOptions) /\ ~NoneCredentialed
  /\ Len(providerResults) = 3
  /\ ScoreValues(1) = {Rat(9, 10), Rat(1, 10)}
  /\ ScoreValues(2) = {Rat(9, 10)}
  /\ ScoreValues(3) = {Rat(1, 10)}

\* C8: every VisibilityScore of a run has score in [0,1], whichever path
\* produced it, and every DashboardInsight has avgScore in [0,1].
C8_ScoresInUnit ==
  InFlow =>
    /\ \A p \in Providers : \A i \in 1..Len(loops[p].scores) :
         InUnit(loops[p].scores[i].score)
    /\ \A i \in 1..Len(providerResults) : \A j \in 1..Len(providerResults[i].scores) :
         InUnit(providerResults[i].scores[j].score)
    /\ \A i \in 1..Len(insights) : InUnit(insights[i].avgScore)

C8_Witness ==
  /\ flowPc = "done"
  /\ env.VISIBILITY_SCORING_WEIGHTS.set
  /\ \E i \in 1..Len(providerResults) :
       /\ Len(providerResults[i].scores) >= 2
       /\ ScoreValues(i) = {Zero, One}
  /\ \E i \in 1..Len(insights) :
       RGt(insights[i].avgScore, Zero) /\ RLt(insights[i].avgScore, One)

\* C9: dashboard aggregation starts only after all three provider loops have
\* settled; a loop that threw contributes {provider, answers: [], scores: []}
\* and the other providers' results are those their loops returned.
C9_JoinAfterAllSettled ==
  InFlow =>
    /\ ~Joined => (providerResults = <<>> /\ insights = <<>>)
    /\ Joined =>
         /\ \A p \in Providers : Settled(loops[p])
         /\ Len(providerResults) = 3
         /\ \A i \in 1..3 :
              LET p == ProviderOrder[i]
                  r == providerResults[i]
              IN  /\ r.provider = p
                  /\ loops[p].pc = "threw" => (r.answers = <<>> /\ r.scores = <<>>)
                  /\ loops[p].pc = "returned"
                       => /\ r.answers = loops[p].answers
                          /\ r.scores = loops[p].scores
                          /\ Len(r.scores) = Len(questions)

C9_Witness ==
  /\ flowPc = "done"
  /\ loops["anthropic"].pc = "threw" /\ Len(loops["anthropic"].scores) = 1
  /\ providerResults[2].answers = <<>> /\ providerResults[2].scores = <<>>
  /\ loops["openai"].pc = "returned" /\ Len(providerResults[1].scores) = 2
  /\ loops["gemini"].pc = "returned" /\ Len(providerResults[3].scores) = 2
  /\ Len(insights) = 2

\* C10: within one provider's loop the questions are processed in array
\* order: the answer call for question i+1 is pending only when the score of
\* question i has been pushed, and answers[i] and scores[i] of a result belong
\* to questions[i].
C10_QuestionOrder ==
  InFlow =>
    /\ \A p \in Providers :
         LET l == loops[p]
         IN  /\ l.pc = "awaitAnswer"
                  => (Len(l.answers) = l.idx - 1 /\ Len(l.scores) = l.idx - 1)
             /\ l.pc = "awaitScore"
                  => (Len(l.answers) = l.idx /\ Len(l.scores) = l.idx - 1)
             /\ l.pc = "returned"
                  => (Len(l.answers) = Len(questions) /\ Len(l.scores) = Len(questions))
             /\ \A i \in 1..Len(l.answers) :
                  /\ i <= Len(questions)
                  /\ l.answers[i].questionId = questions[i].id
                  /\ l.answers[i].question = questions[i].text
             /\ \A i \in 1..Len(l.scores) :
                  /\ i <= Len(questions)
                  /\ l.scoredIds[i] = questions[i].id
                  /\ l.scores[i].service = relatedService(company, questions[i])
    /\ \A k \in 1..Len(providerResults) :
         LET r == providerResults[k]
         IN  /\ Len(r.answers) = Len(r.scores)
             /\ \A i \in 1..Len(r.answers) :
                  /\ r.answers[i].questionId = questions[i].id
                  /\ r.scores[i] = loops[r.provider].scores[i]
                  /\ loops[r.provider].scoredIds[i] = questions[i].id

C10_Witness ==
  /\ flowPc = "done"
  /\ Len(questions) = 2
  /\ Len(providerResults[1].answers) = 2
  /\ providerResults[1].answers[2].questionId = 2
  /\ providerResults[1].scores[1].service = "Backup"
  /\ providerResults[1].scores[2].service = "hosting"

\* ------------------------------------------------------------------------
\* Specification SpecDash: dashboardAgent applied to drawn provider results
\* ------------------------------------------------------------------------
MaxScores == 3

DashServices == {"backup", "Backup"}
DashScoreVals == {Rat(9, 10), Rat(1, 2), Rat(3, 4), Rat(4, 10), Rat(1, 10)}

DashScore(provider, service, score) ==
  [provider |-> provider, service |-> service, score |-> score, rationale |-> ""]

\* the first score is openai's, the others are gemini's; anthropic has none
DashScoreLists(provider) ==
  UNION {[1..n -> {DashScore(provider, s, v) : s \in DashServices, v \in DashScoreVals}] :
           n \in 0..(IF provider = "openai" THEN 1 ELSE MaxScores - 1)}

DashResults ==
  {<<[provider |-> "openai", answers |-> <<>>, scores |-> so],
     [provider |-> "anthropic", answers |-> <<>>, scores |-> <<>>],
     [provider |-> "gemini", answers |-> <<>>, scores |-> sg]>> :
     so \in DashScoreLists("openai"), sg \in DashScoreLists("gemini")}

\* answers of the enrichment call, as fragments between separators
RecEmpty == <<"">>
RecBlank == <<" ", "">>
RecOneBullet == <<"", "Add FAQ">>
RecManyBullets == <<" Update docs ", "", "Add FAQ", "List pricing", "Publish case study">>
RecTexts == {RecEmpty, RecBlank, RecOneBullet, RecManyBullets}
RecOracles == {Threw} \cup {Returned(t) : t \in RecTexts}

InitDash ==
  /\ providerResults \in DashResults
  /\ company \in Companies
  /\ env = MkEnv(Key, Undefined, Undefined, Undefined, Undefined, EnvUnset)
  /\ clients = NoClients
  /\ insights = NoSeq
  /\ dash = [on |-> TRUE, pc |-> "start", recs |-> <<>>, resolved |-> {}, calls |-> <<>>]
  /\ calc = Idle /\ sel = Idle /\ sc = Idle /\ world = Idle
  /\ questions = NoSeq /\ flowPc = "idle" /\ loops = Idle
  /\ qp = Idle /\ qv = Idle /\ qg = Idle

\* grouping, averages and comments, and the start of every recommendation
Aggregate ==
  /\ dash.on /\ dash.pc = "start"
  /\ insights' = Insights(providerResults)
  /\ dash' = [dash EXCEPT !.pc = "enrich",
                          !.recs = [i \in 1..Len(Insights(providerResults)) |-> NoResult],
                          !.calls = [i \in 1..Len(Insights(providerResults)) |-> NoResult]]
  /\ UNCHANGED <<calc, sel, sc, env, clients, world, company, questions,
                 flowPc, loops, providerResults, qp, qv, qg>>

\* the enrichment call of insight i settles and its recommendation resolves
Enrich(i) ==
  /\ dash.on /\ dash.pc = "enrich"
  /\ i \in (1..Len(insights)) \ dash.resolved
  /\ \E oracle \in RecOracles :
       dash' = [dash EXCEPT
                  !.resolved = dash.resolved \cup {i},
                  !.calls[i] = [threw |-> oracle.threw, text |-> oracle.text],
                  !.recs[i] =
                    resolveRecommendation(company, insights[i],
                      buildRecommendation(company, insights[i],
                        callLlm("openai", <<>>, env, clients, oracle)))]
  /\ UNCHANGED <<calc, sel, sc, env, clients, world, company, questions,
                 flowPc, loops, providerResults, insights, qp, qv, qg>>

DashReturn ==
  /\ dash.on /\ dash.pc = "enrich"
  /\ dash.resolved = 1..Len(insights)
  /\ dash' = [dash EXCEPT !.pc = "done"]
  /\ UNCHANGED <<calc, sel, sc, env, clients, world, company, questions,
                 flowPc, loops, providerResults, insights, qp, qv, qg>>

NextDash ==
  \/ Aggregate
  \/ \E i \in 1..MaxScores : Enrich(i)
  \/ DashReturn

SpecDash == InitDash /\ [][NextDash]_vars

Aggregated == dash.on /\ dash.pc # "start"
DashDone == dash.on /\ dash.pc = "done"

\* positions <<result, index>> of the scores handed to dashboardAgent
ScoreIndex ==
  UNION {{<<r, j>> : j \in 1..Len(providerResults[r].scores)} :
           r \in 1..Len(providerResults)}

ScoreAt(x) == providerResults[x[1]].scores[x[2]]

IndexOfService(service) == {x \in ScoreIndex : ScoreAt(x).service = service}

RECURSIVE SumOver(_)
SumOver(S) ==
  IF S = {} THEN Zero
  ELSE LET x == CHOOSE y \in S : TRUE
       IN  RAdd(ScoreAt(x).score, SumOver(S \ {x}))

InsightOf(service) ==
  CHOOSE i \in 1..Len(insights) : insights[i].service = service

\* C11: dashboardAgent emits exactly one insight per distinct service string
\* (exact match) occurring among the scores of all provider results, none for
\* a service without scores, and each avgScore is the arithmetic mean of the
\* scores grouped to that service.
C11_OneInsightPerService ==
  Aggregated =>
    /\ {insights[i].service : i \in 1..Len(insights)}
         = {ScoreAt(x).service : x \in ScoreIndex}
    /\ \A i, j \in 1..Len(insights) :
         insights[i].service = insights[j].service => i = j
    /\ \A i \in 1..Len(insights) :
         LET idx == IndexOfService(insights[i].service)
         IN  /\ idx # {}
             /\ insights[i].avgScore = RDiv(SumOver(idx), Rat(Cardinality(idx), 1))

C11_Witness ==
  /\ DashDone
  /\ Len(insights) = 2
  /\ {ScoreAt(x).score : x \in IndexOfService("backup")} = {Rat(9, 10), Rat(1, 2)}
  /\ insights[InsightOf("backup")].avgScore = Rat(7, 10)
  /\ insights[InsightOf("Backup")].avgScore = Rat(1, 10)

WellComment == "Service is well represented in LLM answers."
ModerateComment == "Service has moderate visibility. There is room for improvement."
InvisibleComment == "Service is almost invisible in LLM answers. It needs active optimization."

\* C12: every insight carries exactly one comment: 'well represented' iff
\* avgScore >= 0.75, 'moderate visibility' iff 0.4 <= avgScore < 0.75,
\* 'almost invisible' iff avgScore < 0.4.
C12_OneCommentByBand ==
  Aggregated =>
    \A i \in 1..Len(insights) :
      LET avg == insights[i].avgScore
          c == insights[i].comments
      IN  /\ Len(c) = 1
          /\ c[1] = WellComment <=> RGe(avg, Rat(3, 4))
          /\ c[1] = ModerateComment <=> (RGe(avg, Rat(4, 10)) /\ RLt(avg, Rat(3, 4)))
          /\ c[1] = InvisibleComment <=> RLt(avg, Rat(4, 10))

C12_Witness ==
  /\ DashDone
  /\ Len(insights) = 2
  /\ insights[InsightOf("backup")].avgScore = Rat(3, 4)
  /\ insights[InsightOf("backup")].comments = <<WellComment>>
  /\ insights[InsightOf("Backup")].avgScore = Rat(4, 10)
  /\ insights[InsightOf("Backup")].comments = <<ModerateComment>>

\* the text of an enrichment answer yields no non-empty fragment
NoFragment(text) == \A k \in 1..Len(text) : text[k] \in {"", " "}

EnrichmentFailed(i) == dash.calls[i].threw \/ NoFragment(dash.calls[i].text)

\* C13: when the enrichment of an insight fails (the call errors, or its text
\* yields no non-empty fragment) the description is the fixed 'Reinforce
\* current positioning' string if avgScore >= 0.75 and the fixed 'Enhance
\* descriptions' string otherwise.
C13_FailureFallsBackByBand ==
  Aggregated =>
    \A i \in dash.resolved :
      EnrichmentFailed(i) =>
        dash.recs[i].description =
          IF RGe(insights[i].avgScore, Rat(3, 4))
          THEN <<ReinforceText>> ELSE <<EnhanceText>>

NamesCompanyAndService(prompt, service) ==
  prompt.company = company.name /\ prompt.service = service

RecommendationShape ==
  Aggregated =>
    /\ Len(dash.recs) = Len(insights)
    /\ DashDone => dash.resolved = 1..Len(insights)
    /\ \A i \in dash.resolved :
         /\ dash.recs[i].title.service = insights[i].service
         /\ Len(dash.recs[i].suggestedPrompts) = 2
         /\ \A k \in 1..2 :
              NamesCompanyAndService(dash.recs[i].suggestedPrompts[k], insights[i].service)
         /\ ~EnrichmentFailed(i) =>
              dash.recs[i].description[1] \notin {ReinforceText, EnhanceText}

RecommendationsKept ==
  \A i \in dash.resolved :
    /\ i \in dash'.resolved
    /\ dash'.recs[i] = dash.recs[i]
    /\ insights'[i] = insights[i]

\* C14: dashboardAgent returns one recommendation per insight, at the same
\* index, each with two suggestedPrompts naming the company and the insight's
\* service whichever description path was taken; a recommendation, once
\* resolved, is never changed or removed by the enrichment of another
\* insight, failing or not.
C14_IndependentRecommendations ==
  /\ []RecommendationShape
  /\ [][RecommendationsKept]_vars

C14_Witness ==
  /\ DashDone
  /\ Len(insights) = 2
  /\ dash.calls[1].threw
  /\ dash.recs[1].description = <<EnhanceText>>
  /\ ~dash.calls[2].threw
  /\ dash.recs[2].description = <<"Update docs", "Add FAQ", "List pricing">>
  /\ Len(dash.recs[1].suggestedPrompts) = 2

\* ------------------------------------------------------------------------
\* Specification SpecParse: both extraction functions applied to drawn texts
\* ------------------------------------------------------------------------
MaxSegments == 3

RawQuestion(text) == [text |-> text, intent |-> "informational", language |-> "en"]

ArrA == JsonArrOf(<<RawQuestion("What is the best hosting provider"),
                    RawQuestion("Who offers managed backup")>>)
ArrB == JsonArrOf(<<RawQuestion("Which company sells backup")>>)
ArrMock == JsonArrOf(<<RawQuestion("Is the MOCK] label visible")>>)

ParseSegments ==
  {SegJson(ArrA), SegJson(ArrMock), SegJson(JsonArr), SegJson(GoodObj), SegJson(JsonBad),
   SegFence("json", ArrA), SegFence("", ArrB), SegFence("json", JsonBad),
   SegProse("Here"), SegProse("[1]"), SegProse("[{note}]"), SegProse("MOCK]")}

ParseTexts == UNION {[1..n -> ParseSegments] : n \in 0..MaxSegments}

InitParse ==
  /\ qp \in [on : {TRUE}, text : ParseTexts, doneQ : {FALSE}, outQ : {NoResult},
             doneS : {FALSE}, outS : {NoResult}]
  /\ calc = Idle /\ sel = Idle /\ sc = Idle /\ env = Idle /\ clients = Idle
  /\ world = Idle /\ company = Idle /\ questions = NoSeq /\ flowPc = "idle"
  /\ loops = Idle /\ providerResults = NoSeq /\ insights = NoSeq
  /\ dash = Idle /\ qv = Idle /\ qg = Idle

ParseQuestions ==
  /\ qp.on /\ ~qp.doneQ
  /\ qp' = [qp EXCEPT !.doneQ = TRUE, !.outQ = parseQuestionResponse(qp.text)]
  /\ UNCHANGED <<calc, sel, sc, env, clients, world, company, questions,
                 flowPc, loops, providerResults, insights, dash, qv, qg>>

ParseScoring ==
  /\ qp.on /\ ~qp.doneS
  /\ qp' = [qp EXCEPT !.doneS = TRUE, !.outS = parseScoringResponse(qp.text)]
  /\ UNCHANGED <<calc, sel, sc, env, clients, world, company, questions,
                 flowPc, loops, providerResults, insights, dash, qv, qg>>

NextParse == ParseQuestions \/ ParseScoring

SpecParse == InitParse /\ [][NextParse]_vars

QuestionsParsed == qp.on /\ qp.doneQ
ScoringParsed == qp.on /\ qp.doneS

\* the text begins with "[" and holds "MOCK]"
MockSentinel(text) == StartsWithBracket(text) /\ IncludesMock(text)

IsArrayJson(seg) == seg.k = "json" /\ seg.v.t = "arr"

\* the whole text is the serialisation of an array
DirectArray(text) == Len(text) = 1 /\ IsArrayJson(text[1])

FirstWhere(text, i, Test(_)) ==
  Test(text[i]) /\ \A m \in 1..(i - 1) : ~Test(text[m])

IsTaggedFence(seg) == seg.k = "fence" /\ seg.tag \in {"json", "JSON"}
IsFence(seg) == seg.k = "fence"

\* the first json-tagged fenced block of the text holds a valid array
TaggedArrayAt(text, i) == FirstWhere(text, i, IsTaggedFence) /\ text[i].v.t = "arr"

\* the first fenced block of the text is untagged and holds a valid array
PlainArrayAt(text, i) ==
  FirstWhere(text, i, IsFence) /\ text[i].tag = "" /\ text[i].v.t = "arr"

\* the text holds one bracketed run "[{ ... }]" and it is a valid array
LoneArrayAt(text, i) ==
  /\ ArrayShaped(text[i]) /\ text[i].k # "prose"
  /\ \A m \in 1..Len(text) : ArrayShaped(text[m]) => m = i

ExtractionOrder(text, out) ==
  IF DirectArray(text) THEN out.success /\ out.questions = text[1].v.items
  ELSE IF \E i \in 1..Len(text) : TaggedArrayAt(text, i)
  THEN \A i \in 1..Len(text) :
         TaggedArrayAt(text, i) => (out.success /\ out.questions = text[i].v.items)
  ELSE IF \E i \in 1..Len(text) : PlainArrayAt(text, i)
  THEN \A i \in 1..Len(text) :
         PlainArrayAt(text, i) => (out.success /\ out.questions = text[i].v.items)
  ELSE IF \E i \in 1..Len(text) : LoneArrayAt(text, i)
  THEN \A i \in 1..Len(text) :
         LoneArrayAt(text, i) => (out.success /\ out.questions = text[i].v.items)
  ELSE ~out.success

\* C15: question-list extraction tries direct parse, json-tagged fenced
\* block, any fenced block and the array-shape scan in this order and returns
\* the array of the first strategy that yields one: a text with a json-tagged
\* block holding a valid array and stray bracket content around it gives the
\* tagged block's array; when every strategy fails the result is a failure
\* with a reason and no questions.
C15_ExtractionPrecedence ==
  QuestionsParsed =>
    /\ (qp.text # <<>> /\ ~MockSentinel(qp.text)) => ExtractionOrder(qp.text, qp.outQ)
    /\ ~qp.outQ.success => (qp.outQ.questions = <<>> /\ qp.outQ.error # "")

C15_Witness ==
  /\ QuestionsParsed
  /\ qp.text = <<SegProse("[{note}]"), SegFence("", ArrB), SegFence("json", ArrA)>>
  /\ qp.outQ.success
  /\ qp.outQ.questions = ArrA.items

CredentialReason == "LLM API key not configured - received mock response"

\* C16: for a text whose trimmed form begins with "[" and contains "MOCK]"
\* parseQuestionResponse and parseScoringResponse both return failure with the
\* credential-absence reason, whatever a JSON parse or another strategy would
\* have extracted from it.
C16_MockSentinelFails ==
  /\ (QuestionsParsed /\ MockSentinel(qp.text))
       => /\ ~qp.outQ.success
          /\ qp.outQ.questions = <<>>
          /\ qp.outQ.error = CredentialReason
  /\ (ScoringParsed /\ MockSentinel(qp.text))
       => /\ ~qp.outS.success
          /\ qp.outS.breakdown = NoBreakdown
          /\ qp.outS.error = CredentialReason

C16_Witness ==
  /\ QuestionsParsed /\ ScoringParsed
  /\ qp.text = <<SegJson(ArrMock)>>
  /\ ~qp.outQ.success /\ ~qp.outS.success
  /\ qp.outQ.error = CredentialReason /\ qp.outS.error = CredentialReason

\* C17: a mock sentinel string returned by the answer-generation call when
\* credentials are absent is never used as answer content: no VisibilityScore
\* of a run is derived (by the company/service match) from an answer that is
\* a mock sentinel.
C17_MockIsNeverContent ==
  InFlow =>
    \A p \in Providers : \A i \in 1..Len(loops[p].scores) :
      ~MockSentinel(loops[p].answers[i].answer)

\* the scoring response is the serialisation of an array, a primitive or null
HoldsNoRecord(text) ==
  Len(text) = 1 /\ text[1].k = "json" /\ text[1].v.t \in {"arr", "num", "null"}

\* C18: scoring-mode extraction succeeds only for a single record: when the
\* parsed JSON of the response is an array (or a primitive or null) the
\* extraction fails and scoreAnswerVisibility returns the heuristic, not a
\* score computed from a breakdown built from that value.
C18_OnlyRecordsAreScored ==
  (ScoreDone /\ sc.out.llmCalled /\ ~sc.oracle.threw /\ HoldsNoRecord(sc.oracle.text))
    => ReturnsHeuristic

\* the environment value is present and is a record of the six weights
WellFormedWeightsEnv ==
  LET v == env.VISIBILITY_SCORING_WEIGHTS
  IN  /\ v.set /\ Len(v.text) = 1 /\ v.text[1].k = "json" /\ v.text[1].v.t = "obj"
      /\ \A f \in Factors :
           f \in DOMAIN v.text[1].v.f /\ v.text[1].v.f[f].t = "num"

DeclaredWeights ==
  [f \in Factors |-> env.VISIBILITY_SCORING_WEIGHTS.text[1].v.f[f].v]

ClaimedWeights ==
  IF sc.params.options.given /\ sc.params.options.weights.given
  THEN sc.params.options.weights.w
  ELSE IF WellFormedWeightsEnv THEN DeclaredWeights
  ELSE DEFAULT_SCORING_WEIGHTS

\* C19: the weights of a scoring call are the explicit override if supplied,
\* else the environment-declared JSON when present and well-formed (a record
\* of the six weights), else the defaults; an absent or malformed environment
\* value never changes the score relative to the defaults.
C19_WeightResolution ==
  ParsedCase =>
    sc.out.score = calculateVisibilityScore(sc.out.breakdown, ClaimedWeights)

\* ------------------------------------------------------------------------
\* Specification SpecValidate: validateQuestions applied to drawn candidates
\* ------------------------------------------------------------------------
MaxPadding == 1

TextLengths == {0, 5, 9, 10, 200, 201}

\* texts: not a string, or a string of n trimmed characters and some padding
CandidateTexts ==
  {[isString |-> FALSE, length |-> 0, padding |-> 0]}
    \cup {[isString |-> TRUE, length |-> n + pad, padding |-> pad] :
            n \in TextLengths, pad \in 0..MaxPadding}

CandidateIntents ==
  {[isString |-> FALSE, s |-> ""]}
    \cup {[isString |-> TRUE, s |-> i] : i \in {"pricing", "Pricing", "other"}}

CandidateLanguages ==
  {[isString |-> FALSE, chars |-> <<>>]}
    \cup {[isString |-> TRUE, chars |-> c] :
            c \in {<<"e", "n">>, <<" ", "E", "N", " ">>, <<"e">>, <<"e", "n", "g">>,
                   <<"e", "1">>, <<"f", " ">>}}

RecordCandidates ==
  [kind : {"record"}, text : CandidateTexts, intent : CandidateIntents,
   language : CandidateLanguages]

GoodCandidate ==
  [kind |-> "record",
   text |-> [isString |-> TRUE, length |-> 10, padding |-> 0],
   intent |-> [isString |-> TRUE, s |-> "pricing"],
   language |-> [isString |-> TRUE, chars |-> <<"e", "n">>]]

OtherCandidates ==
  {[GoodCandidate EXCEPT !.kind = k] : k \in {"array", "null", "string"}}

LongCandidate ==
  [GoodCandidate EXCEPT !.text = [isString |-> TRUE, length |-> 201, padding |-> 1],
                        !.language = [isString |-> TRUE, chars |-> <<" ", "E", "N", " ">>]]

ShortCandidate ==
  [GoodCandidate EXCEPT !.text = [isString |-> TRUE, length |-> 5, padding |-> 0]]

\* candidates of the batches of three
BatchCandidates ==
  {GoodCandidate, LongCandidate, ShortCandidate, [GoodCandidate EXCEPT !.kind = "null"]}

\* one drawn candidate, alone or next to a fixed good one, batches of three,
\* and a non-array
ValidateInputs ==
  {[isArray |-> TRUE, list |-> <<c>>] : c \in RecordCandidates \cup OtherCandidates}
    \cup {[isArray |-> TRUE, list |-> <<c, GoodCandidate>>] : c \in OtherCandidates}
    \cup {[isArray |-> TRUE, list |-> <<GoodCandidate, [c EXCEPT !.intent.s = "other"]>>] :
            c \in {GoodCandidate}}
    \cup {[isArray |-> TRUE, list |-> <<a, b, c>>] :
            a \in BatchCandidates, b \in BatchCandidates, c \in BatchCandidates}
    \cup {[isArray |-> TRUE, list |-> <<>>], [isArray |-> FALSE, list |-> <<>>]}

NotGiven == [given |-> FALSE, n |-> 0, list |-> <<>>]
GivenNumber(n) == [given |-> TRUE, n |-> n, list |-> <<>>]
GivenList(list) == [given |-> TRUE, n |-> 0, list |-> list]

ValidateConfigs ==
  [minTextLength : {NotGiven, GivenNumber(0), GivenNumber(9)},
   maxTextLength : {NotGiven, GivenNumber(9)},
   allowedIntents : {NotGiven, GivenList(<<"other">>)}]

InitValidate ==
  /\ qv \in [on : {TRUE}, input : ValidateInputs, config : ValidateConfigs,
             done : {FALSE}, out : {NoResult}]
  /\ calc = Idle /\ sel = Idle /\ sc = Idle /\ env = Idle /\ clients = Idle
  /\ world = Idle /\ company = Idle /\ questions = NoSeq /\ flowPc = "idle"
  /\ loops = Idle /\ providerResults = NoSeq /\ insights = NoSeq
  /\ dash = Idle /\ qp = Idle /\ qg = Idle

Validate ==
  /\ qv.on /\ ~qv.done
  /\ qv' = [qv EXCEPT !.done = TRUE, !.out = validateQuestions(qv.input, qv.config)]
  /\ UNCHANGED <<calc, sel, sc, env, clients, world, company, questions,
                 flowPc, loops, providerResults, insights, dash, qp, qg>>

NextValidate == Validate

SpecValidate == InitValidate /\ [][NextValidate]_vars

Validated == qv.on /\ qv.done /\ qv.input.isArray

MinOf(config) == IF config.minTextLength.given THEN config.minTextLength.n ELSE 10
MaxOf(config) == IF config.maxTextLength.given THEN config.maxTextLength.n ELSE 200
IntentsOf(config) ==
  IF config.allowedIntents.given
  THEN {config.allowedIntents.list[i] : i \in 1..Len(config.allowedIntents.list)}
  ELSE {"find_service", "evaluate_company", "compare_options", "pricing",
        "reviews", "features", "alternatives"}

\* language codes whose lowercased and trimmed form is two letters a-z
TwoLetterLanguages == {<<"e", "n">>, <<" ", "E", "N", " ">>}

\* the acceptance condition as the claim states it
ClaimedAcceptable(c, config) ==
  /\ c.kind = "record"
  /\ c.text.isString
  /\ c.text.length - c.text.padding >= MinOf(config)
  /\ c.text.length - c.text.padding <= MaxOf(config)
  /\ c.intent.isString /\ c.intent.s \in IntentsOf(config)
  /\ c.language.isString /\ c.language.chars \in TwoLetterLanguages

\* ... and with the empty text excluded whatever the minimum
Acceptable(c, config) ==
  ClaimedAcceptable(c, config) /\ c.text.length - c.text.padding # 0

CountWhere(list, config, Test(_, _)) ==
  Cardinality({i \in 1..Len(list) : Test(list[i], config)})

HasError(i) == \E k \in 1..Len(qv.out.errors) : qv.out.errors[k].index = i

\* a candidate is accepted iff Test holds of it, and never with an error
AcceptsExactly(Test(_, _)) ==
  /\ Len(qv.out.questions) = CountWhere(qv.input.list, qv.config, Test)
  /\ \A i \in 1..Len(qv.input.list) :
       /\ Test(qv.input.list[i], qv.config) <=> ~HasError(i)
       /\ Test(qv.input.list[i], qv.config) =>
            \E k \in 1..Len(qv.out.questions) :
              /\ qv.out.questions[k].text.length
                   = qv.input.list[i].text.length - qv.input.list[i].text.padding
              /\ qv.out.questions[k].intent = qv.input.list[i].intent.s
  /\ qv.out.valid <=> qv.out.errors = <<>>

\* C20 as stated: validateQuestions accepts a candidate iff it is a plain
\* record whose text is a string with trimmed length in [minTextLength,
\* maxTextLength] (defaults 10 and 200), whose intent is a string in the
\* allowed set and whose language, lowercased and trimmed, is two letters a-z.
C20_Original == Validated => AcceptsExactly(ClaimedAcceptable)

\* C20 as amended: as above, and the trimmed text is not empty (an empty text
\* is rejected even when minTextLength is 0); with the defaults trimmed length
\* 5 is rejected and trimmed length exactly 10 is accepted, and a candidate
\* with any error is never in the accepted list.
C20_AcceptsIffWellFormed == Validated => AcceptsExactly(Acceptable)

C20_Witness ==
  /\ Validated
  /\ ~qv.config.minTextLength.given /\ ~qv.config.maxTextLength.given
  /\ ~qv.config.allowedIntents.given
  /\ Len(qv.input.list) = 1
  /\ qv.input.list[1].text = [isString |-> TRUE, length |-> 11, padding |-> 1]
  /\ qv.input.list[1].language.chars = <<" ", "E", "N", " ">>
  /\ Len(qv.out.questions) = 1
  /\ qv.out.questions[1].text.length = 10
  /\ qv.out.questions[1].language = <<"e", "n">>
  /\ qv.out.valid

\* indexes of the candidates that individually pass
PassingIndexes ==
  {i \in 1..Len(qv.input.list) : Acceptable(qv.input.list[i], qv.config)}

\* the position in the accepted list of the passing candidate at index i
RankOf(i) == Cardinality({j \in PassingIndexes : j <= i})

\* C21: validateQuestions returns valid = true iff no error was collected for
\* any candidate; when some candidate fails, valid is false and the accepted
\* list still holds, in input order, every candidate that individually passed.
C21_ValidIffNoErrors ==
  (qv.on /\ qv.done) =>
    /\ qv.out.valid <=> qv.out.errors = <<>>
    /\ qv.input.isArray =>
         /\ qv.out.valid <=> PassingIndexes = 1..Len(qv.input.list)
         /\ Len(qv.out.questions) = Cardinality(PassingIndexes)
         /\ \A i \in PassingIndexes :
              /\ qv.out.questions[RankOf(i)].text.length
                   = qv.input.list[i].text.length - qv.input.list[i].text.padding
              /\ qv.out.questions[RankOf(i)].intent = qv.input.list[i].intent.s

C21_Witness ==
  /\ qv.on /\ qv.done
  /\ qv.input.list = <<LongCandidate, ShortCandidate, GoodCandidate>>
  /\ ~qv.config.minTextLength.given /\ ~qv.config.maxTextLength.given
  /\ ~qv.out.valid
  /\ Len(qv.out.questions) = 2
  /\ qv.out.questions[1].text.length = 200
  /\ qv.out.questions[2].text.length = 10
  /\ Len(qv.out.errors) = 1

\* ------------------------------------------------------------------------
\* Specification SpecNormalize: the normalizer of tryParse applied twice
\* ------------------------------------------------------------------------
\* Number(str) of a rationale string
RationaleNumber(str) == IF str = "" THEN Zero ELSE NaN

\* the parsed object JSON.parse gives back for a serialised breakdown
RawOfBreakdown(b) ==
  JsonObj(ScoringFields(RawNum(b.mentionPresence), RawNum(b.mentionCount),
                        RawNum(b.mentionContext), RawNum(b.mentionPosition),
                        RawNum(b.descriptionDetail), RawNum(b.answerRelevance),
                        RawNum(b.serviceMatch),
                        RawStr(b.rationale, RationaleNumber(b.rationale))))

MentionCounts == {Zero, Rat(2, 1), Rat(5, 2), Rat(-3, 1)}

\* breakdowns with six factors in [0,1], a finite count and a textual rationale
NormalizedBreakdowns ==
  {MkBreakdown(p, c, pos, dd, ar, sm, cnt, rat) :
     p \in Fractions, c \in Fractions, pos \in Bits, dd \in Bits, ar \in Bits,
     sm \in Bits, cnt \in MentionCounts, rat \in {"", "Named first with detail."}}

NormalizeInputs ==
  {RawOfBreakdown(b) : b \in NormalizedBreakdowns} \cup {GoodObj, SloppyObj, JsonArr}

InitNormalize ==
  /\ qp \in [on : {TRUE}, text : {<<SegJson(o)>> : o \in NormalizeInputs},
             doneQ : {TRUE}, outQ : {NoResult}, doneS : {FALSE}, outS : {NoResult},
             again : {NoResult}]
  /\ calc = Idle /\ sel = Idle /\ sc = Idle /\ env = Idle /\ clients = Idle
  /\ world = Idle /\ company = Idle /\ questions = NoSeq /\ flowPc = "idle"
  /\ loops = Idle /\ providerResults = NoSeq /\ insights = NoSeq
  /\ dash = Idle /\ qv = Idle /\ qg = Idle

\* the normalized breakdown is serialised and normalized once more
Renormalize ==
  /\ qp.on /\ qp.doneS /\ qp.outS.success /\ qp.again = NoResult
  /\ qp' = [qp EXCEPT !.again =
              parseScoringResponse(<<SegJson(RawOfBreakdown(qp.outS.breakdown))>>)]
  /\ UNCHANGED <<calc, sel, sc, env, clients, world, company, questions,
                 flowPc, loops, providerResults, insights, dash, qv, qg>>

NextNormalize == ParseScoring \/ Renormalize

SpecNormalize == InitNormalize /\ [][NextNormalize]_vars

Renormalized == qp.on /\ qp.doneS /\ qp.again # NoResult

\* the text is the serialisation of an already-normalized breakdown
HoldsNormalized ==
  \E b \in NormalizedBreakdowns : qp.text = <<SegJson(RawOfBreakdown(b))>>

\* C22: normalization of a scoring breakdown is idempotent: the normalizer
\* applied to an already-normalized breakdown (six factors in [0,1], finite
\* mentionCount, textual rationale) yields the same breakdown, and applied to
\* its own output it changes nothing.
C22_NormalizeIdempotent ==
  /\ (qp.on /\ qp.doneS /\ HoldsNormalized)
       => /\ qp.outS.success
          /\ qp.text = <<SegJson(RawOfBreakdown(qp.outS.breakdown))>>
  /\ Renormalized
       => (qp.again.success /\ qp.again.breakdown = qp.outS.breakdown)

C22_Witness ==
  /\ Renormalized
  /\ qp.text = <<SegJson(RawOfBreakdown(
         MkBreakdown(Half, One, Zero, One, Zero, One, Rat(5, 2), "")))>>
  /\ qp.again.breakdown = MkBreakdown(Half, One, Zero, One, Zero, One, Rat(5, 2), "")

\* ------------------------------------------------------------------------
\* Specification SpecRuns: several runs of runVisibilityFlow in one process
\* ------------------------------------------------------------------------
RunEnvs ==
  {MkEnv(Key, Key, Key, "false", Undefined, EnvUnset),
   MkEnv(Undefined, Undefined, Undefined, Undefined, Undefined, EnvUnset),
   MkEnv(Key, Undefined, Key, Undefined, Undefined, EnvUnset)}

RunWorlds ==
  {MkWorld({AnswerBoth}, {Returned(TextGood)}),
   MkWorld({AnswerNeither}, {Threw, Returned(TextMalformed)})}

InitRuns ==
  /\ env \in RunEnvs
  /\ world \in RunWorlds
  /\ company \in Companies
  /\ questions \in QuestionLists
  /\ clients = NoClients
  /\ flowPc = "start"
  /\ loops = [p \in Providers |-> NotStarted]
  /\ providerResults = NoSeq /\ insights = NoSeq
  /\ calc = Idle /\ sel = Idle /\ sc = Idle
  /\ dash = Idle /\ qp = Idle /\ qv = Idle /\ qg = Idle

\* runVisibilityFlow is invoked again in the same process: the environment is
\* read afresh, the module-level clients of llmClients stay as they are
NextRun ==
  /\ flowPc = "done"
  /\ env' \in RunEnvs
  /\ world' \in RunWorlds
  /\ questions' \in QuestionLists
  /\ flowPc' = "start"
  /\ loops' = [p \in Providers |-> NotStarted]
  /\ providerResults' = NoSeq /\ insights' = NoSeq
  /\ UNCHANGED <<calc, sel, sc, clients, company, dash, qp, qv, qg>>

NextRuns == NextFlow \/ NextRun

SpecRuns == InitRuns /\ [][NextRuns]_vars

\* the step a provider's loop takes equals the step it takes in a process
\* that has run nothing before (no client created yet)
StepAsInFreshProcess(p) ==
  /\ (loops[p].pc = "awaitAnswer" /\ loops'[p] # loops[p])
       => \E oracle \in AnswerOracles :
            loops'[p] = AfterAnswer(loops[p], questions[loops[p].idx],
                          callLlm(p, AnswerPromptHead(questions[loops[p].idx]),
                                  env, NoClients, oracle))
  /\ (loops[p].pc = "awaitScore" /\ loops'[p] # loops[p])
       => \E oracle \in world.scoring :
            loops'[p] = AfterScore(p, company, questions, loops[p],
                          scoreAnswerVisibility(
                            ScoreParams(p, company, LastAnswer(loops[p])),
                            env, NoClients, oracle))

\* C23: there is no shared mutable state across analysis runs: nothing created
\* or cached during one run influences a later run, so every step of a run is
\* the step a fresh process takes on the same company, environment and
\* provider responses.
C23_RunsAreIndependent == [][\A p \in Providers : StepAsInFreshProcess(p)]_vars

\* ------------------------------------------------------------------------
\* Specification SpecGenerate: questionGeneratorAgent
\* ------------------------------------------------------------------------
MaxServices == 5

ServiceNames == <<"hosting", "Backup", "email">>

GenCompanies ==
  {[on |-> TRUE, name |-> "Acme",
    services |-> [i \in 1..n |-> ServiceNames[((i - 1) % 3) + 1]]] : n \in 0..MaxServices}

GenItem(text, intent, language) == [text |-> text, intent |-> intent, language |-> language]

\* n elements, the one at badAt too short to pass validation
GenArray(n, badAt) ==
  JsonArrOf([i \in 1..n |->
               IF i = badAt THEN GenItem("Pricing?", "pricing", "en")
               ELSE GenItem("Which provider offers backup",
                            VALID_INTENTS[((i - 1) % 7) + 1],
                            IF i = 2 THEN " EN " ELSE "en")])

GenSizes == {1, 2, 3, 7, 8, 12, 13}

GenTexts ==
  {<<>>, <<SegProse("Sorry")>>, <<SegJson(JsonArr)>>, <<SegJson(GoodObj)>>,
   <<SegProse("Here"), SegFence("json", GenArray(9, 0))>>,
   <<SegJson(GenArray(9, 5))>>, <<SegJson(GenArray(3, 1))>>,
   <<SegJson(ArrA)>>}
    \cup {<<SegJson(GenArray(n, 0))>> : n \in GenSizes}

GenResponses == {Threw} \cup {Returned(t) : t \in GenTexts}

GenOptions ==
  [provider : {Undefined, "anthropic"},
   minQuestions : {NotGiven, GivenNumber(2)},
   maxQuestions : {NotGiven, GivenNumber(3), GivenNumber(1)},
   enableFallback : {Undefined, "true", "false"}]

GenEnvs ==
  [OPENAI_API_KEY : {Undefined, Key}, ANTHROPIC_API_KEY : {Undefined, Key, "  "},
   GEMINI_API_KEY : {Undefined},
   QUESTION_GENERATION_PROVIDER : {Undefined, "", "anthropic", "mistral"}]

GenPrompt == <<"You", "are", "a", "market", "research", "assistant.">>

InitGenerate ==
  /\ env \in GenEnvs
  /\ company \in GenCompanies
  /\ clients = NoClients
  /\ qg \in [on : {TRUE}, options : GenOptions, pc : {"start"}, calls : {0},
             response : {Returned(<<>>)}, out : {NoResult}]
  /\ calc = Idle /\ sel = Idle /\ sc = Idle /\ world = Idle
  /\ questions = NoSeq /\ flowPc = "idle" /\ loops = Idle
  /\ providerResults = NoSeq /\ insights = NoSeq
  /\ dash = Idle /\ qp = Idle /\ qv = Idle

\* questionGeneratorAgent up to its await of callLlm
GenerateStart ==
  /\ qg.on /\ qg.pc = "start"
  /\ qg' = IF hasApiKey(GenProvider(qg.options, env), env)
           THEN [qg EXCEPT !.pc = "awaitLlm", !.calls = 1]
           ELSE [qg EXCEPT !.pc = "done", !.out = FallbackOrThrow(company, qg.options)]
  /\ clients' = IF hasApiKey(GenProvider(qg.options, env), env)
                THEN ClientsAfter(GenProvider(qg.options, env), env, clients)
                ELSE clients
  /\ UNCHANGED <<calc, sel, sc, env, world, company, questions, flowPc, loops,
                 providerResults, insights, dash, qp, qv>>

\* callLlm settles and questionGeneratorAgent runs to its end
GenerateResolve ==
  /\ qg.on /\ qg.pc = "awaitLlm"
  /\ \E oracle \in GenResponses :
       qg' = [qg EXCEPT !.pc = "done", !.response = oracle,
                        !.out = AfterGeneration(company, qg.options,
                                  callLlm(GenProvider(qg.options, env), GenPrompt,
                                          env, clients, oracle))]
  /\ UNCHANGED <<calc, sel, sc, env, clients, world, company, questions, flowPc,
                 loops, providerResults, insights, dash, qp, qv>>

NextGenerate == GenerateStart \/ GenerateResolve

SpecGenerate == InitGenerate /\ [][NextGenerate]_vars

Generated == qg.on /\ qg.pc = "done"

\* C24: questionGeneratorAgent returns at least minQuestions (default 8) and
\* at most maxQuestions (default 12) questions, on every path including the
\* template fallback.
C24_CountWithinBounds ==
  (Generated /\ ~qg.out.threw) =>
    /\ Len(qg.out.questions) >= GenMin(qg.options)
    /\ Len(qg.out.questions) <= GenMax(qg.options)

GenCredentialed == hasApiKey(GenProvider(qg.options, env), env)

\* the elements of the array extracted from the response
ExtractedItems == parseQuestionResponse(qg.response.text).questions

EveryCandidatePasses ==
  \A i \in 1..Len(ExtractedItems) :
    validateSingleQuestion(CandidateOf(ExtractedItems[i]), i, NoValidationConfig) = <<>>

\* the conditions under which the generated questions are returned
LlmPath ==
  /\ GenCredentialed
  /\ qg.calls = 1 /\ ~qg.response.threw
  /\ parseQuestionResponse(qg.response.text).success
  /\ Len(ExtractedItems) > 0
  /\ EveryCandidatePasses
  /\ Len(ExtractedItems) >= GenMin(qg.options)

\* question i of the result is element i of the extracted array
FromExtracted(i) ==
  /\ qg.out.questions[i].id = QuestionId("q", i - 1, 0)
  /\ qg.out.questions[i].intent = ExtractedItems[i].intent
  /\ qg.out.questions[i].text.length = CharCount(ExtractedItems[i].text)

ThreePerService ==
  /\ Len(qg.out.questions) = 3 * Len(company.services)
  /\ \A n \in 1..Len(qg.out.questions) :
       /\ qg.out.questions[n].text.service = company.services[((n - 1) \div 3) + 1]
       /\ qg.out.questions[n].text.template = ((n - 1) % 3) + 1
       /\ qg.out.questions[n].id.prefix = ""

\* C25: with enableFallback true (the default) questionGeneratorAgent never
\* throws; it returns the generated questions only if the provider is
\* credentialed, the call succeeds, extraction gives a non-empty array, every
\* candidate passes validation and at least minQuestions remain; in every
\* other case it returns exactly the template questions, three per service in
\* service order, and without a credential it issues no LLM call.
C25_FallbackIsTemplate ==
  (Generated /\ GenFallback(qg.options)) =>
    /\ ~qg.out.threw
    /\ LlmPath =>
         /\ Len(qg.out.questions) <= Len(ExtractedItems)
         /\ Len(qg.out.questions) > 0
         /\ \A i \in 1..Len(qg.out.questions) : FromExtracted(i)
    /\ ~LlmPath => ThreePerService
    /\ ~GenCredentialed => qg.calls = 0

C25_Witness ==
  /\ Generated /\ GenFallback(qg.options) /\ GenCredentialed
  /\ qg.response = Returned(<<SegJson(GenArray(9, 5))>>)
  /\ ~qg.options.minQuestions.given
  /\ Len(company.services) = 2
  /\ Len(qg.out.questions) = 6
  /\ ThreePerService

\* ------------------------------------------------------------------------
\* runVisibilityFlow: shape of the provider results and of the insights
\* ------------------------------------------------------------------------
\* C26: in the result of runVisibilityFlow each provider's result is
\* all-or-nothing: answers and scores both have one entry per generated
\* question or are both empty, and what a loop had collected before one of
\* its steps threw is discarded.
C26_AllOrNothing ==
  (InFlow /\ Joined) =>
    \A i \in 1..Len(providerResults) :
      /\ \/ /\ Len(providerResults[i].answers) = Len(questions)
            /\ Len(providerResults[i].scores) = Len(questions)
         \/ /\ providerResults[i].answers = <<>>
            /\ providerResults[i].scores = <<>>
      /\ (/\ loops[providerResults[i].provider].pc = "threw"
          /\ Len(loops[providerResults[i].provider].answers) > 0)
           => /\ providerResults[i].answers = <<>>
              /\ providerResults[i].scores = <<>>

C26_Witness ==
  /\ flowPc = "done"
  /\ Len(questions) = 2
  /\ loops["gemini"].pc = "threw"
  /\ Len(loops["gemini"].answers) = 1 /\ Len(loops["gemini"].scores) = 1
  /\ providerResults[3].provider = "gemini"
  /\ providerResults[3].answers = <<>> /\ providerResults[3].scores = <<>>
  /\ Len(providerResults[1].answers) = 2

\* the lowercased service name occurs in the lowercased question text
Occurs(question, service) == Lower(service) \in LowerWords(question.text)

\* the first service in list order that occurs, services[0] when none does
FirstOccurring(question) ==
  IF \E j \in 1..Len(company.services) : Occurs(question, company.services[j])
  THEN {company.services[j] :
          j \in {n \in 1..Len(company.services) :
                   /\ Occurs(question, company.services[n])
                   /\ \A m \in 1..(n - 1) : ~Occurs(question, company.services[m])}}
  ELSE {company.services[1]}

OfCompany(service) == \E j \in 1..Len(company.services) : company.services[j] = service

\* C27: for a company with a non-empty services list every VisibilityScore's
\* service is the first service in list order whose lowercased name occurs in
\* the lowercased question text, and services[0] when none occurs; so every
\* insight's service is one of the company's services and there are at most
\* |services| insights.
C27_ServiceOfCompany ==
  (InFlow /\ Len(company.services) > 0) =>
    /\ \A p \in Providers : \A k \in 1..Len(loops[p].scores) :
         /\ OfCompany(loops[p].scores[k].service)
         /\ loops[p].scores[k].service \in FirstOccurring(questions[k])
    /\ \A i \in 1..Len(providerResults) : \A k \in 1..Len(providerResults[i].scores) :
         providerResults[i].scores[k].service \in FirstOccurring(questions[k])
    /\ \A i \in 1..Len(insights) : OfCompany(insights[i].service)
    /\ Len(insights) <= Len(company.services)

C27_Witness ==
  /\ flowPc = "done"
  /\ Len(questions) = 2
  /\ Occurs(questions[2], "Backup") /\ Occurs(questions[2], "hosting")
  /\ Len(providerResults[1].scores) = 2
  /\ providerResults[1].scores[1].service = "Backup"
  /\ providerResults[1].scores[2].service = "hosting"
  /\ Len(insights) = 2

====
